---- MODULE Spec2Model ----
(***************************************************************************)
(* Relationship resolution engine of kube-lineage (package graph) and the  *)
(* tree projection of its table printer (package printers).                *)
(*                                                                         *)
(* resolveDeps is modelled as a sequential state machine: the universe     *)
(* construction loop, the owner pass, the extractor pass, root seeding,    *)
(* the breadth-first traversal with its depth sentinel, and then the       *)
(* recursive row projection with an explicit call stack.  Go map ranges    *)
(* are modelled as nondeterministic choices of the next key.               *)
(***************************************************************************)
EXTENDS Integers, Sequences, FiniteSets, TLC

(***************************************************************************)
(* Bounds of the model.                                                    *)
(***************************************************************************)
\* largest number of objects handed to resolveDeps
MaxObjects == 4
\* largest length of the root list (uids)
MaxRoots == 2
\* largest value of the --depth flag tried by the projection (0 = unlimited)
MaxDepth == 3

\* the depth counter of the traversal is followed up to this value
MaxLayers == 8

(***************************************************************************)
(* Program constants.                                                      *)
(***************************************************************************)
\* a nil *Node
NilNode == 0
\* the empty UID that delimits the depth layers of the queue
Sentinel == ""

GroupCore == ""
GroupEvents == "events.k8s.io"
GroupPolicy == "policy"
GroupRBAC == "rbac.authorization.k8s.io"
GroupExtensions == "extensions"
LabelHostname == "kubernetes.io/hostname"
APIGroupAll == "*"
ResourceAll == "*"
VerbAll == "*"

RelationshipClusterRoleAggregationRule == "ClusterRoleAggregationRule"
RelationshipClusterRolePolicyRule == "ClusterRolePolicyRule"
RelationshipRolePolicyRule == "RolePolicyRule"
RelationshipEventRegarding == "EventRegarding"
RelationshipEventRelated == "EventRelated"
RelationshipControllerRef == "ControllerReference"
RelationshipOwnerRef == "OwnerReference"
RelationshipPodImagePullSecret == "PodImagePullSecret"
RelationshipPodNode == "PodNode"
RelationshipPodSecurityPolicy == "PodSecurityPolicy"
RelationshipPodServiceAccount == "PodServiceAccount"
RelationshipHelmRelease == "HelmRelease"
RelationshipHelmStorage == "HelmStorage"
RelationshipPersistentVolumeClaim == "PersistentVolumeClaim"
RelationshipPersistentVolumeStorageClass == "PersistentVolumeStorageClass"
RelationshipRoleBindingRole == "RoleBindingRole"
RelationshipRoleBindingSubject == "RoleBindingSubject"
RelationshipService == "Service"
RelationshipServiceAccountImagePullSecret == "ServiceAccountImagePullSecret"
RelationshipServiceAccountSecret == "ServiceAccountSecret"

(***************************************************************************)
(* The objects of the cluster.  An object is its metadata (uid, group,     *)
(* kind, namespace, name, labels, annotations, ownerReferences), the       *)
(* string leaves of its manifest that are read by path (content: pairs of  *)
(* a field path and a value, keys case-sensitive as in the unstructured    *)
(* document), and the typed fields the extractors decode.                  *)
(***************************************************************************)
O(uid, group, kind, ns, name) ==
  [uid |-> uid, group |-> group, kind |-> kind, namespace |-> ns, name |-> name,
   labels |-> {}, annotations |-> {}, owners |-> {}, content |-> {},
   selector |-> {}, rules |-> {}, aggregation |-> {},
   nodeName |-> "", serviceAccountName |-> "",
   secrets |-> {}, imagePullSecrets |-> {}, undecodable |-> FALSE,
   roleRef |-> [apiGroup |-> "", kind |-> "", name |-> ""], subjects |-> {},
   claimRef |-> {}, volumeName |-> "", storageClassName |-> ""]

\* spec.claimRef of a PersistentVolume
ClaimRef(ns, name) == [namespace |-> ns, name |-> name]

RoleRef(apiGroup, kind, name) == [apiGroup |-> apiGroup, kind |-> kind, name |-> name]

Subject(apiGroup, kind, ns, name) ==
  [apiGroup |-> apiGroup, kind |-> kind, namespace |-> ns, name |-> name]

OwnerRef(uid, controller) == [uid |-> uid, controller |-> controller]

PolicyRule(apiGroups, resources, verbs, resourceNames) ==
  [apiGroups |-> apiGroups, resources |-> resources, verbs |-> verbs,
   resourceNames |-> resourceNames]

ClusterRoleR(rules) ==
  [O("r", GroupRBAC, "ClusterRole", "", "r") EXCEPT !.rules = rules]

Catalogue ==
  << \* 1..4: a Deployment, its ReplicaSet and Pods
     O("d", "apps", "Deployment", "kube-system", "coredns"),
     [O("rs", "apps", "ReplicaSet", "kube-system", "coredns-5d69dc75db")
        EXCEPT !.owners = {OwnerRef("d", TRUE)}],
     [O("pod", GroupCore, "Pod", "kube-system", "coredns-5d69dc75db-26wjw")
        EXCEPT !.owners = {OwnerRef("rs", TRUE)},
               !.labels = {<<"k8s-app", "kube-dns">>}],
     [O("other", GroupCore, "Pod", "kube-system", "other")
        EXCEPT !.owners = {OwnerRef("d", FALSE), OwnerRef("gone", TRUE)},
               !.labels = {<<"app", "other">>}],
     \* 5..6: a Service and a Pod of another namespace
     [O("svc", GroupCore, "Service", "kube-system", "kube-dns")
        EXCEPT !.selector = {<<"k8s-app", "kube-dns">>}],
     [O("podx", GroupCore, "Pod", "default", "coredns-abc")
        EXCEPT !.labels = {<<"k8s-app", "kube-dns">>, <<"tier", "dns">>}],
     \* 7..11: Nodes, Events of both API groups, a scheduled Pod
     O("n", GroupCore, "Node", "", "worker-1"),
     [O("n2", GroupCore, "Node", "", "worker-2")
        EXCEPT !.labels = {<<LabelHostname, "worker2">>}],
     [O("ev", GroupCore, "Event", "default", "x")
        EXCEPT !.content = {<< <<"involvedObject", "uid">>, "n" >>}],
     [O("ev2", GroupEvents, "Event", "default", "y")
        EXCEPT !.content = {<< <<"regarding", "uid">>, "worker2" >>,
                            << <<"related", "uid">>, "worker-1" >>}],
     [O("podn", GroupCore, "Pod", "default", "web")
        EXCEPT !.nodeName = "worker-1"],
     \* 12..17: ClusterRole r with one of six rule lists
     ClusterRoleR({PolicyRule({"policy"}, {"podsecuritypolicies"}, {"use"}, {})}),
     ClusterRoleR({PolicyRule({"*"}, {"*"}, {"*"}, {"psp-a"})}),
     ClusterRoleR({PolicyRule({"extensions", "apps"}, {"pods", "podsecuritypolicies"},
                              {"get", "use"}, {"psp-b", "psp-x"})}),
     ClusterRoleR({PolicyRule({"apps"}, {"podsecuritypolicies"}, {"use"}, {})}),
     ClusterRoleR({PolicyRule({"policy"}, {"pods"}, {"use"}, {}),
                   PolicyRule({"policy"}, {"podsecuritypolicies"}, {"use"}, {"psp-b"})}),
     ClusterRoleR({PolicyRule({"policy"}, {"podsecuritypolicies"}, {"get"}, {"psp-a"})}),
     \* 18..20: a Role and two PodSecurityPolicies
     [O("ro", GroupRBAC, "Role", "kube-system", "ro")
        EXCEPT !.rules = {PolicyRule({"policy"}, {"*"}, {"use"}, {"psp-a"}),
                          PolicyRule({""}, {"podsecuritypolicies"}, {"use"}, {"psp-b"})}],
     O("pa", GroupPolicy, "PodSecurityPolicy", "", "psp-a"),
     O("pb", GroupPolicy, "PodSecurityPolicy", "", "psp-b"),
     \* 21..23: objects whose owner references form cycles
     [O("x", GroupCore, "ConfigMap", "default", "x")
        EXCEPT !.owners = {OwnerRef("y", TRUE), OwnerRef("z", FALSE)}],
     [O("y", GroupCore, "ConfigMap", "default", "y")
        EXCEPT !.owners = {OwnerRef("x", FALSE), OwnerRef("z", TRUE)}],
     [O("z", GroupCore, "ConfigMap", "default", "z")
        EXCEPT !.owners = {OwnerRef("z", FALSE), OwnerRef("gone", FALSE)}],
     \* 24..25: an aggregated ClusterRole whose selector matches its own labels
     [O("agg", GroupRBAC, "ClusterRole", "", "agg")
        EXCEPT !.labels = {<<"aggregate", "true">>},
               !.aggregation = {{<<"aggregate", "true">>}}],
     [O("cr2", GroupRBAC, "ClusterRole", "", "view")
        EXCEPT !.labels = {<<"aggregate", "true">>}],
     \* 26..29: a ServiceAccount, its Secrets and a Pod running under it
     [O("sa", GroupCore, "ServiceAccount", "kube-system", "coredns")
        EXCEPT !.secrets = {"coredns-token"}, !.imagePullSecrets = {"regcred"}],
     O("tok", GroupCore, "Secret", "kube-system", "coredns-token"),
     O("reg", GroupCore, "Secret", "kube-system", "regcred"),
     [O("podsa", GroupCore, "Pod", "kube-system", "dns")
        EXCEPT !.serviceAccountName = "coredns",
               !.imagePullSecrets = {"regcred"},
               !.annotations = {<<"kubernetes.io/psp", "psp-a">>}],
     \* 30: an object owned by the Pod, the end of an owner chain of four
     [O("leaf", GroupCore, "ConfigMap", "kube-system", "leaf")
        EXCEPT !.owners = {OwnerRef("pod", TRUE)}],
     \* 31..32: Services whose extraction fails: a manifest that does not
     \* decode into corev1.Service, and a selector with an invalid label value
     [O("bad", GroupCore, "Service", "kube-system", "bad-svc")
        EXCEPT !.selector = {<<"k8s-app", "kube-dns">>},
               !.owners = {OwnerRef("d", FALSE)},
               !.undecodable = TRUE],
     [O("badsel", GroupCore, "Service", "kube-system", "bad-sel")
        EXCEPT !.selector = {<<"k8s-app", "kube dns">>}],
     \* 33..34: RoleBindings of a ServiceAccount, to a ClusterRole and to a Role
     [O("rb", GroupRBAC, "RoleBinding", "kube-system", "psp-rolebinding")
        EXCEPT !.roleRef = RoleRef(GroupRBAC, "ClusterRole", "r"),
               !.subjects = {Subject("", "ServiceAccount", "kube-system", "coredns")}],
     [O("rb2", GroupRBAC, "RoleBinding", "kube-system", "ro-binding")
        EXCEPT !.roleRef = RoleRef(GroupRBAC, "Role", "ro"),
               !.subjects = {Subject("", "ServiceAccount", "kube-system", "coredns")}],
     \* 35..38: a bound PersistentVolume and its claim, and a PersistentVolume
     \* reserved for a claim that does not name it yet
     [O("pv1", GroupCore, "PersistentVolume", "", "pv-a")
        EXCEPT !.claimRef = {ClaimRef("default", "claim-a")}],
     [O("pvc1", GroupCore, "PersistentVolumeClaim", "default", "claim-a")
        EXCEPT !.volumeName = "pv-a"],
     [O("pv2", GroupCore, "PersistentVolume", "", "pv-b")
        EXCEPT !.claimRef = {ClaimRef("default", "claim-b")}],
     O("pvc2", GroupCore, "PersistentVolumeClaim", "default", "claim-b"),
     \* 39..43: ConfigMaps owned along two paths of different length: t-n is
     \* owned by the root and by t-a, which the root owns too
     O("t0", GroupCore, "ConfigMap", "default", "t-root"),
     [O("t1", GroupCore, "ConfigMap", "default", "t-a")
        EXCEPT !.owners = {OwnerRef("t0", FALSE)}],
     [O("t2", GroupCore, "ConfigMap", "default", "t-n")
        EXCEPT !.owners = {OwnerRef("t0", FALSE), OwnerRef("t1", FALSE)}],
     [O("t3", GroupCore, "ConfigMap", "default", "t-x")
        EXCEPT !.owners = {OwnerRef("t2", FALSE)}],
     [O("t4", GroupCore, "ConfigMap", "default", "t-y")
        EXCEPT !.owners = {OwnerRef("t3", FALSE)}],
     \* 44: a Service without spec.selector
     O("nosel", GroupCore, "Service", "kube-system", "headless"),
     \* 45: an object whose UID is the name of the Node worker-1
     O("worker-1", GroupCore, "ConfigMap", "default", "cm"),
     \* 46: an object handed to the resolver without UID, owned by the Deployment
     [O("", GroupCore, "ConfigMap", "kube-system", "nouid")
        EXCEPT !.owners = {OwnerRef("d", TRUE)}],
     \* 47: the node of a Helm release, made by the helm command; its UID is ""
     O("", "", "", "kube-system", "coredns")
  >>

Ptrs == DOMAIN Catalogue

\* The groups of objects that universes are drawn from.
Families ==
  { {1, 2, 3, 4}, {1, 2, 3, 30}, {3, 4, 5, 6}, {7, 8, 9, 10, 11},
    {12, 13, 14, 15, 16, 17, 18, 19, 20}, {21, 22, 23, 24, 25}, {26, 27, 28, 29, 19},
    {1, 3, 5, 31, 32}, {12, 18, 26, 33, 34}, {35, 36, 37, 38}, {3, 4, 5, 6, 44} }

\* UIDs are assigned by the cluster: distinct objects have distinct UIDs.
DistinctUIDs(S) == \A p, q \in S : p # q => Catalogue[p].uid # Catalogue[q].uid

Universes ==
  { S \in UNION { SUBSET F : F \in Families } :
      Cardinality(S) <= MaxObjects /\ DistinctUIDs(S) }

(***************************************************************************)
(* Go maps: finite functions.  A missing key reads as the zero value.      *)
(***************************************************************************)
EmptyMap == [k \in {} |-> NilNode]

Put(m, k, v) == [x \in DOMAIN m \cup {k} |-> IF x = k THEN v ELSE m[x]]

\* m[k] of a map of *Node: nil when the key is absent
Lookup(m, k) == IF k \in DOMAIN m THEN m[k] ELSE NilNode

RECURSIVE Perms(_)
\* the orders in which a range over a map with key set S can visit it
Perms(S) ==
  IF S = {} THEN {<<>>}
  ELSE UNION { { <<k>> \o t : t \in Perms(S \ {k}) } : k \in S }

Range(q) == { q[i] : i \in DOMAIN q }

(***************************************************************************)
(* Keys.  A key is the fields joined by the separator "\"; no field of a   *)
(* modelled object holds the separator, so the joined string is modelled   *)
(* by the tuple of its fields.                                             *)
(***************************************************************************)
ObjectReference(group, kind, ns, name) ==
  [Group |-> group, Kind |-> kind, Namespace |-> ns, Name |-> name]

ObjectReferenceKey(o) == <<o.Group, o.Kind, o.Namespace, o.Name>>

ObjectLabelSelector(group, kind, ns, selector) ==
  [Group |-> group, Kind |-> kind, Namespace |-> ns, Selector |-> selector]

ObjectLabelSelectorKey(o) == <<o.Group, o.Kind, o.Namespace, o.Selector>>

ObjectSelector(group, kind, namespaces) ==
  [Group |-> group, Kind |-> kind, Namespaces |-> namespaces]

ObjectSelectorKey(o) == <<o.Group, o.Kind, o.Namespaces>>

\* a selector without requirements matches nothing
NonEmptySelectorMatches(selector, labels) == selector # {} /\ selector \subseteq labels

\* labels.Selector.Matches for a selector built from a label set: every
\* key=value requirement of the selector is among the labels
SelectorMatches(selector, labels) == selector \subseteq labels

(***************************************************************************)
(* Node: the resolver's record of an object.  The identity fields are the  *)
(* object's; Dependencies and Dependents map a UID to a RelationshipSet.   *)
(***************************************************************************)
NewNode == [Dependencies |-> EmptyMap, Dependents |-> EmptyMap, Depth |-> 0]

UID(p) == Catalogue[p].uid

\* a write that replaces the relationships already recorded under the UID
OverwriteRelationship(m, uid, r) ==
  [x \in DOMAIN m \cup {uid} |-> IF x = uid THEN {r} ELSE m[x]]

AddRelationship(m, uid, r) ==
  IF uid \in DOMAIN m THEN [m EXCEPT ![uid] = @ \cup {r}]
  ELSE [x \in DOMAIN m \cup {uid} |-> IF x = uid THEN {r} ELSE m[x]]

AddDependency(n, uid, r) == [n EXCEPT !.Dependencies = AddRelationship(@, uid, r)]

AddDependent(n, uid, r) == [n EXCEPT !.Dependents = AddRelationship(@, uid, r)]

OppositeDeps(n, isDependencies) ==
  IF isDependencies THEN n.Dependents ELSE n.Dependencies

GetDeps(n, isDependencies) == IF isDependencies THEN n.Dependencies ELSE n.Dependents

GetObjectReferenceKey(p) ==
  ObjectReferenceKey(ObjectReference(Catalogue[p].group, Catalogue[p].kind,
                                     Catalogue[p].namespace, Catalogue[p].name))

GetNestedString(o, fields) ==
  IF \E e \in o.content : e[1] = fields
  THEN (CHOOSE e \in o.content : e[1] = fields)[2]
  ELSE ""

\* An edge is <<dependent, dependency, relationship>> between two nodes.
\* Both halves are written: the dependent's Dependencies and the
\* dependency's Dependents, each under the other node's UID field.
OnlyDependencyHalf(ns, e) ==
  [ns EXCEPT ![e[1]] = AddDependency(@, UID(e[2]), e[3])]

WriteEdge(ns, e) ==
  LET n1 == [ns EXCEPT ![e[1]] = AddDependency(@, UID(e[2]), e[3])]
  IN  [n1 EXCEPT ![e[2]] = AddDependent(@, UID(e[1]), e[3])]

RECURSIVE WriteEdges(_, _)
WriteEdges(ns, E) ==
  IF E = {} THEN ns
  ELSE LET e == CHOOSE x \in E : TRUE
       IN  WriteEdges(WriteEdge(ns, e), E \ {e})

(***************************************************************************)
(* RelationshipMap: the pending edges of one object, by addressing mode.   *)
(* A bucket is a set of <<key, relationship>>.                             *)
(***************************************************************************)
newRelationshipMap ==
  [DependenciesByLabelSelector |-> {}, DependenciesByRef |-> {},
   DependenciesBySelector |-> {}, DependenciesByUID |-> {},
   DependentsByLabelSelector |-> {}, DependentsByRef |-> {},
   DependentsBySelector |-> {}, DependentsByUID |-> {},
   ObjectLabelSelectors |-> {}, ObjectSelectors |-> {}]

AddDependencyByKey(m, k, r) ==
  [m EXCEPT !.DependenciesByRef = @ \cup {<<k, r>>}]

AddDependencyByLabelSelector(m, o, r) ==
  [m EXCEPT !.DependenciesByLabelSelector = @ \cup {<<ObjectLabelSelectorKey(o), r>>},
            !.ObjectLabelSelectors = @ \cup {o}]

AddDependencyBySelector(m, o, r) ==
  [m EXCEPT !.DependenciesBySelector = @ \cup {<<ObjectSelectorKey(o), r>>},
            !.ObjectSelectors = @ \cup {o}]

AddDependencyByUID(m, uid, r) ==
  [m EXCEPT !.DependenciesByUID = @ \cup {<<uid, r>>}]

AddDependentByKey(m, k, r) ==
  [m EXCEPT !.DependentsByRef = @ \cup {<<k, r>>}]


(***************************************************************************)
(* Extractors: the pending edges an object's manifest implies.             *)
(***************************************************************************)
HasAny(s, items) == s \cap items # {}

MatchesWithoutVerb(r) ==
  /\ HasAny(r.apiGroups, {APIGroupAll, GroupExtensions, GroupPolicy})
  /\ HasAny(r.resources, {ResourceAll, "podsecuritypolicies"})

podSecurityPolicyMatches(r) ==
  /\ HasAny(r.apiGroups, {APIGroupAll, GroupExtensions, GroupPolicy})
  /\ HasAny(r.resources, {ResourceAll, "podsecuritypolicies"})
  /\ HasAny(r.verbs, {VerbAll, "use"})

\* the loop over the rules shared by getClusterRoleRelationships and
\* getRoleRelationships: a selector over all PodSecurityPolicies for a
\* matching rule without resourceNames, a reference per name otherwise
PolicyRuleRelationships(m, rules, rel) ==
  LET matching == { r \in rules : podSecurityPolicyMatches(r) }
      m1 == IF \E r \in matching : r.resourceNames = {}
            THEN AddDependencyBySelector(
                   m, ObjectSelector(GroupPolicy, "PodSecurityPolicy", {}), rel)
            ELSE m
      names == UNION { r.resourceNames : r \in matching }
  IN  [m1 EXCEPT !.DependenciesByRef = @ \cup
         { << ObjectReferenceKey(
                ObjectReference(GroupPolicy, "PodSecurityPolicy", "", n)), rel >>
           : n \in names }]

getClusterRoleRelationships(o) ==
  LET ols(sel) == ObjectLabelSelector(GroupRBAC, "ClusterRole", "", sel)
      m1 == [newRelationshipMap EXCEPT
               !.DependenciesByLabelSelector =
                  { << ObjectLabelSelectorKey(ols(sel)),
                       RelationshipClusterRoleAggregationRule >>
                    : sel \in o.aggregation },
               !.ObjectLabelSelectors = { ols(sel) : sel \in o.aggregation }]
  IN  PolicyRuleRelationships(m1, o.rules, RelationshipClusterRolePolicyRule)

getRoleRelationships(o) ==
  PolicyRuleRelationships(newRelationshipMap, o.rules, RelationshipRolePolicyRule)

\* the subjects are dependents by key; the role is a dependency by the key
\* made of roleRef and the namespace of the RoleBinding
getRoleBindingRelationships(o) ==
  [newRelationshipMap EXCEPT
     !.DependentsByRef =
        { << ObjectReferenceKey(ObjectReference(s.apiGroup, s.kind, s.namespace, s.name)),
             RelationshipRoleBindingSubject >> : s \in o.subjects },
     !.DependenciesByRef =
        { << ObjectReferenceKey(ObjectReference(o.roleRef.apiGroup, o.roleRef.kind,
                                                o.namespace, o.roleRef.name)),
             RelationshipRoleBindingRole >> }]

getEventRelationships(o) ==
  CASE o.group = GroupCore ->
         AddDependencyByUID(newRelationshipMap,
                            GetNestedString(o, <<"involvedobject", "uid">>),
                            RelationshipEventRegarding)
    [] o.group = GroupEvents ->
         AddDependencyByUID(
           AddDependencyByUID(newRelationshipMap,
                              GetNestedString(o, <<"regarding", "uid">>),
                              RelationshipEventRegarding),
           GetNestedString(o, <<"related", "uid">>),
           RelationshipEventRelated)
    [] OTHER -> newRelationshipMap

\* The modelled Pods have no container environment sources, no volumes, no
\* priority class and no runtime class; the remaining fields are read as in
\* the source.
getPodRelationships(o) ==
  LET ns == o.namespace
      secretKey(name) == ObjectReferenceKey(ObjectReference("", "Secret", ns, name))
      m1 == [newRelationshipMap EXCEPT !.DependenciesByRef =
               { <<secretKey(s), RelationshipPodImagePullSecret>>
                 : s \in o.imagePullSecrets }]
      m2 == AddDependencyByKey(
              m1, ObjectReferenceKey(ObjectReference("", "Node", "", o.nodeName)),
              RelationshipPodNode)
      m3 == [m2 EXCEPT !.DependenciesByRef = @ \cup
               { << ObjectReferenceKey(
                      ObjectReference(GroupPolicy, "PodSecurityPolicy", "", a[2])),
                    RelationshipPodSecurityPolicy >>
                 : a \in { b \in o.annotations : b[1] = "kubernetes.io/psp" } }]
  IN  IF o.serviceAccountName # ""
      THEN AddDependencyByKey(
             m3,
             ObjectReferenceKey(
               ObjectReference("", "ServiceAccount", ns, o.serviceAccountName)),
             RelationshipPodServiceAccount)
      ELSE m3

\* The modelled PodSecurityPolicies allow no CSI drivers and name no runtime
\* classes.
getPodSecurityPolicyRelationships(o) == newRelationshipMap

UnscopedSelector(o) == ObjectLabelSelector("", "Pod", "", o.selector)

ServicePodSelector(o) == ObjectLabelSelector("", "Pod", o.namespace, o.selector)

getServiceRelationships(o) ==
  AddDependencyByLabelSelector(newRelationshipMap, ServicePodSelector(o),
                               RelationshipService)

\* the claim is a dependent by the key made of the name of claimRef and the
\* namespace of the PersistentVolume; the storage class is a dependency (the
\* modelled volumes have no CSI source)
getPersistentVolumeRelationships(o) ==
  [newRelationshipMap EXCEPT
     !.DependentsByRef =
        { << ObjectReferenceKey(ObjectReference("", "PersistentVolumeClaim",
                                                o.namespace, c.name)),
             RelationshipPersistentVolumeClaim >> : c \in o.claimRef },
     !.DependenciesByRef =
        IF o.storageClassName # ""
        THEN { << ObjectReferenceKey(ObjectReference("storage.k8s.io", "StorageClass",
                                                     "", o.storageClassName)),
                  RelationshipPersistentVolumeStorageClass >> }
        ELSE {}]

\* the volume spec.volumeName names is a dependency
getPersistentVolumeClaimRelationships(o) ==
  IF o.volumeName # ""
  THEN AddDependencyByKey(newRelationshipMap,
                          ObjectReferenceKey(ObjectReference("", "PersistentVolume", "",
                                                             o.volumeName)),
                          RelationshipPersistentVolumeClaim)
  ELSE newRelationshipMap

getServiceAccountRelationships(o) ==
  LET secretKey(name) ==
        ObjectReferenceKey(ObjectReference("", "Secret", o.namespace, name))
  IN  [newRelationshipMap EXCEPT
         !.DependenciesByRef =
            { <<secretKey(s), RelationshipServiceAccountImagePullSecret>>
              : s \in o.imagePullSecrets },
         !.DependentsByRef =
            { <<secretKey(s), RelationshipServiceAccountSecret>> : s \in o.secrets }]

\* a label value is at most 63 characters of [A-Za-z0-9_.-]
InvalidLabelValues == {"kube dns"}

\* labels.ValidatedSelectorFromSet
ValidatedSelectorFromSet(selector) ==
  \A pair \in selector : pair[2] \notin InvalidLabelValues

NeverFails(o) == FALSE

\* the extractor of o returns an error: the manifest does not decode into the
\* typed object, or the selector of a Service is not valid
ExtractError(o) ==
  \/ o.undecodable /\ ~(o.kind = "Event")
  \/ o.group = GroupCore /\ o.kind = "Service"
       /\ ~ValidatedSelectorFromSet(o.selector)

\* the cases of the switch of the extractor pass that the modelled kinds reach
HasExtractor(o) ==
  \/ o.group = GroupCore /\ o.kind \in {"Pod", "Service", "ServiceAccount",
                                        "PersistentVolume", "PersistentVolumeClaim"}
  \/ o.group = GroupPolicy /\ o.kind = "PodSecurityPolicy"
  \/ o.group \in {GroupEvents, GroupCore} /\ o.kind = "Event"
  \/ o.group = GroupRBAC /\ o.kind \in {"ClusterRole", "Role", "RoleBinding"}

GetRelationships(o) ==
  CASE o.group = GroupCore /\ o.kind = "Pod" -> getPodRelationships(o)
    [] o.group = GroupCore /\ o.kind = "PersistentVolume" ->
         getPersistentVolumeRelationships(o)
    [] o.group = GroupCore /\ o.kind = "PersistentVolumeClaim" ->
         getPersistentVolumeClaimRelationships(o)
    [] o.group = GroupCore /\ o.kind = "Service" -> getServiceRelationships(o)
    [] o.group = GroupCore /\ o.kind = "ServiceAccount" ->
         getServiceAccountRelationships(o)
    [] o.group = GroupPolicy /\ o.kind = "PodSecurityPolicy" ->
         getPodSecurityPolicyRelationships(o)
    [] o.group \in {GroupEvents, GroupCore} /\ o.kind = "Event" ->
         getEventRelationships(o)
    [] o.group = GroupRBAC /\ o.kind = "ClusterRole" -> getClusterRoleRelationships(o)
    [] o.group = GroupRBAC /\ o.kind = "Role" -> getRoleRelationships(o)
    [] o.group = GroupRBAC /\ o.kind = "RoleBinding" -> getRoleBindingRelationships(o)
    [] OTHER -> newRelationshipMap

(***************************************************************************)
(* State.                                                                  *)
(***************************************************************************)
VARIABLES
  objects,            \* the objects handed to resolveDeps
  pending,            \* objects the construction loop has not reached yet
  globalMapByUID,     \* UID (or Node alias) -> *Node
  globalMapByKey,     \* ObjectReferenceKey -> *Node
  nodes,              \* *Node -> its Dependencies, Dependents and Depth
  pc,                 \* position in the program
  todo,               \* keys the running range loop has not visited yet
  uids,               \* the root list
  depsIsDependencies, \* the resolved direction
  depth,              \* depth of the layer being traversed
  nodeMap,            \* the NodeMap being built: UID -> *Node
  uidQueue,           \* the traversal queue, one sentinel delimiting layers
  uidSet,             \* UIDs the traversal has visited
  bfsExpanded,        \* history: how often the traversal expanded each UID
  maxDepth,           \* the depth bound given to the projection
  stack,              \* call stack of nodeDependentsToTableRows
  printSet,           \* UIDs the projection has visited
  rows,               \* UIDs of the rows emitted so far
  treeExpanded,       \* history: how often the projection expanded each UID
  listPc,             \* position of Client.List
  listOpts,           \* opts.Namespaces, as a set
  listErr,            \* the err variable of List that its goroutines share
  listItems,          \* items: how often each cluster object was appended
  listOuter,          \* position of the goroutine of each API resource
  listInner,          \* position of the goroutine of each (API resource, namespace)
  listGroup,          \* first error of each errgroup
  listCalls,          \* history: the list calls made and their outcomes
  listResult,         \* what List returned
  tablePc,            \* position in nodeMapToTableByGK
  nodesByGKAndNS,     \* the (GroupKind, namespace) groups of the objects to print
  tableRoutine,       \* position of the goroutine of each group
  tableOk,            \* the ok each goroutine read last
  tableByGKAndNS,     \* GroupKind -> namespace -> rows of the fetched table
  tableEg,            \* the error of the errgroup
  tableFetched,       \* the groups a table was fetched for
  tableByGK           \* the result: GroupKind -> rows, or the error

vars == <<objects, pending, globalMapByUID, globalMapByKey, nodes, pc, todo, uids,
          depsIsDependencies, depth, nodeMap, uidQueue, uidSet, bfsExpanded,
          maxDepth, stack, printSet, rows, treeExpanded, listPc, listOpts, listErr,
          listItems, listOuter, listInner, listGroup, listCalls, listResult,
          tablePc, nodesByGKAndNS, tableRoutine, tableOk, tableByGKAndNS, tableEg,
          tableFetched, tableByGK>>

resolveVars == <<uids, depsIsDependencies, depth, nodeMap, uidQueue, uidSet,
                 bfsExpanded>>

printVars == <<maxDepth, stack, printSet, rows, treeExpanded>>

listVars == <<listPc, listOpts, listErr, listItems, listOuter, listInner, listGroup,
              listCalls, listResult>>

tableVars == <<tablePc, nodesByGKAndNS, tableRoutine, tableOk, tableByGKAndNS,
               tableEg, tableFetched, tableByGK>>

Count(m, k) == IF k \in DOMAIN m THEN m[k] ELSE 0

\* nodeMapToTableByGK is not running
TableIdle ==
  /\ tablePc = "idle"
  /\ nodesByGKAndNS = {}
  /\ tableRoutine = EmptyMap
  /\ tableOk = EmptyMap
  /\ tableByGKAndNS = EmptyMap
  /\ tableEg = "nil"
  /\ tableFetched = {}
  /\ tableByGK = "none"

\* Client.List is not running
ListIdle ==
  /\ listPc = "idle"
  /\ listOpts = {}
  /\ listErr = "nil"
  /\ listItems = EmptyMap
  /\ listOuter = EmptyMap
  /\ listInner = EmptyMap
  /\ listGroup = EmptyMap
  /\ listCalls = {}
  /\ listResult = "none"

Init ==
  /\ ListIdle
  /\ TableIdle
  /\ objects \in Universes
  /\ pending = objects
  /\ globalMapByUID = EmptyMap
  /\ globalMapByKey = EmptyMap
  /\ nodes = EmptyMap
  /\ pc = "build"
  /\ todo = {}
  /\ uids = <<>>
  /\ depsIsDependencies = FALSE
  /\ depth = 0
  /\ nodeMap = EmptyMap
  /\ uidQueue = <<>>
  /\ uidSet = {}
  /\ bfsExpanded = EmptyMap
  /\ maxDepth = 0
  /\ stack = <<>>
  /\ printSet = {}
  /\ rows = <<>>
  /\ treeExpanded = EmptyMap

(***************************************************************************)
(* Universe construction.                                                  *)
(***************************************************************************)
IsNode(o) == o.group = GroupCore /\ o.kind = "Node"

Hostnames(o) == { l[2] : l \in { x \in o.labels : x[1] = LabelHostname } }

NameAliasOnly(m, o, p) ==
  LET m1 == Put(m, o.uid, p)
  IN  IF IsNode(o) THEN Put(m1, o.name, p) ELSE m1

\* the entries one object adds to the UID index: its UID and, for a Node,
\* its name and the value of its hostname label
IndexByUID(m, o, p) ==
  LET m1 == Put(m, o.uid, p)
      m2 == IF IsNode(o) THEN Put(m1, o.name, p) ELSE m1
  IN  IF IsNode(o) /\ Hostnames(o) # {}
      THEN Put(m2, CHOOSE h \in Hostnames(o) : TRUE, p)
      ELSE m2

\* one iteration of the loop over objects
BuildUniverse(p) ==
  /\ pc = "build"
  /\ p \in pending
  /\ pending' = pending \ {p}
  /\ nodes' = Put(nodes, p, NewNode)
  /\ globalMapByUID' = IndexByUID(globalMapByUID, Catalogue[p], p)
  /\ globalMapByKey' = Put(globalMapByKey, GetObjectReferenceKey(p), p)
  /\ UNCHANGED <<objects, pc, todo>>
  /\ UNCHANGED resolveVars
  /\ UNCHANGED printVars
  /\ UNCHANGED <<listVars, tableVars>>

EndBuildUniverse ==
  /\ pc = "build"
  /\ pending = {}
  /\ pc' = "owner"
  /\ todo' = DOMAIN globalMapByUID
  /\ UNCHANGED <<objects, pending, globalMapByUID, globalMapByKey, nodes>>
  /\ UNCHANGED resolveVars
  /\ UNCHANGED printVars
  /\ UNCHANGED <<listVars, tableVars>>

(***************************************************************************)
(* Owner pass.                                                             *)
(***************************************************************************)
ControllerAlways(ref) == {RelationshipControllerRef, RelationshipOwnerRef}

OwnerRelationships(ref) ==
  IF ref.controller
  THEN {RelationshipControllerRef, RelationshipOwnerRef}
  ELSE {RelationshipOwnerRef}

\* the edges the owner references of node p resolve to
OwnerEdges(p) ==
  UNION { { <<p, globalMapByUID[ref.uid], r>> : r \in OwnerRelationships(ref) }
          : ref \in { x \in Catalogue[p].owners : x.uid \in DOMAIN globalMapByUID } }

\* one iteration of the range over globalMapByUID
OwnerPass(k) ==
  /\ pc = "owner"
  /\ k \in todo
  /\ todo' = todo \ {k}
  /\ nodes' = WriteEdges(nodes, OwnerEdges(globalMapByUID[k]))
  /\ UNCHANGED <<objects, pending, globalMapByUID, globalMapByKey, pc>>
  /\ UNCHANGED resolveVars
  /\ UNCHANGED printVars
  /\ UNCHANGED <<listVars, tableVars>>

EndOwnerPass ==
  /\ pc = "owner"
  /\ todo = {}
  /\ pc' = "extract"
  /\ todo' = DOMAIN globalMapByUID
  /\ UNCHANGED <<objects, pending, globalMapByUID, globalMapByKey, nodes>>
  /\ UNCHANGED resolveVars
  /\ UNCHANGED printVars
  /\ UNCHANGED <<listVars, tableVars>>

(***************************************************************************)
(* Extractor pass and unification.                                         *)
(***************************************************************************)
IndexedNodes == { globalMapByUID[k] : k \in DOMAIN globalMapByUID }

resolveLabelSelectorToNodes(o) ==
  { n \in IndexedNodes :
      /\ Catalogue[n].group = o.Group
      /\ Catalogue[n].kind = o.Kind
      /\ Catalogue[n].namespace = o.Namespace
      /\ SelectorMatches(o.Selector, Catalogue[n].labels) }

resolveSelectorToNodes(o) ==
  { n \in IndexedNodes :
      /\ Catalogue[n].group = o.Group
      /\ Catalogue[n].kind = o.Kind
      /\ (o.Namespaces = {} \/ Catalogue[n].namespace \in o.Namespaces) }

\* Dependencies(p, T, b): node p depends on the nodes T under the
\* relationships of bucket entry b; Dependents(p, T, b): the reverse.
DependencyEdges(p, T, b) == { <<p, n, b[2]>> : n \in T }

DependentEdges(p, T, b) == { <<n, p, b[2]>> : n \in T }

ByKey(k) == IF k \in DOMAIN globalMapByKey THEN {globalMapByKey[k]} ELSE {}

ByUID(uid) == IF uid \in DOMAIN globalMapByUID THEN {globalMapByUID[uid]} ELSE {}

ByLabelSelector(rmap, k) ==
  UNION { resolveLabelSelectorToNodes(o)
          : o \in { x \in rmap.ObjectLabelSelectors : ObjectLabelSelectorKey(x) = k } }

BySelector(rmap, k) ==
  UNION { resolveSelectorToNodes(o)
          : o \in { x \in rmap.ObjectSelectors : ObjectSelectorKey(x) = k } }

\* the edges updateRelationships writes for node p
updateRelationships(p, rmap) ==
  UNION (
    { DependencyEdges(p, ByKey(b[1]), b) : b \in rmap.DependenciesByRef }
    \cup { DependentEdges(p, ByKey(b[1]), b) : b \in rmap.DependentsByRef }
    \cup { DependencyEdges(p, ByLabelSelector(rmap, b[1]), b)
           : b \in rmap.DependenciesByLabelSelector }
    \cup { DependentEdges(p, ByLabelSelector(rmap, b[1]), b)
           : b \in rmap.DependentsByLabelSelector }
    \cup { DependencyEdges(p, BySelector(rmap, b[1]), b)
           : b \in rmap.DependenciesBySelector }
    \cup { DependentEdges(p, BySelector(rmap, b[1]), b)
           : b \in rmap.DependentsBySelector }
    \cup { DependencyEdges(p, ByUID(b[1]), b) : b \in rmap.DependenciesByUID }
    \cup { DependentEdges(p, ByUID(b[1]), b) : b \in rmap.DependentsByUID } )

\* one iteration of the range over globalMapByUID: dispatch on (Group, Kind),
\* extract, unify; a kind without extractor is skipped
ExtractorPass(k) ==
  /\ pc = "extract"
  /\ k \in todo
  /\ todo' = todo \ {k}
  /\ LET p == globalMapByUID[k]
     IN  nodes' = IF HasExtractor(Catalogue[p]) /\ ~ExtractError(Catalogue[p])
                  THEN WriteEdges(nodes,
                                  updateRelationships(p, GetRelationships(Catalogue[p])))
                  ELSE nodes
  /\ UNCHANGED <<objects, pending, globalMapByUID, globalMapByKey, pc>>
  /\ UNCHANGED resolveVars
  /\ UNCHANGED printVars
  /\ UNCHANGED <<listVars, tableVars>>

EndExtractorPass ==
  /\ pc = "extract"
  /\ todo = {}
  /\ pc' = "seed"
  /\ UNCHANGED <<objects, pending, globalMapByUID, globalMapByKey, nodes, todo>>
  /\ UNCHANGED resolveVars
  /\ UNCHANGED printVars
  /\ UNCHANGED <<listVars, tableVars>>

(***************************************************************************)
(* Root seeding and the breadth-first traversal.                           *)
(***************************************************************************)
AbsentUID == "absent"

RootUIDs == { UID(p) : p \in objects } \cup {AbsentUID}

RootLists == UNION { [1..n -> RootUIDs] : n \in 0..MaxRoots }

IsPresent(uid) == Lookup(globalMapByUID, uid) # NilNode

\* resolveDeps returns an empty NodeMap for an empty root list; otherwise
\* the roots found in the UID index enter the NodeMap and the queue, and the
\* sentinel closes layer 0
SeedRoots(us, dir) ==
  /\ pc = "seed"
  /\ us \in RootLists
  /\ dir \in BOOLEAN
  /\ uids' = us
  /\ depsIsDependencies' = dir
  /\ depth' = 0
  /\ uidSet' = {}
  /\ IF Len(us) = 0
     THEN /\ nodeMap' = EmptyMap
          /\ uidQueue' = <<>>
          /\ pc' = "resolved"
     ELSE LET present == SelectSeq(us, IsPresent)
          IN  /\ nodeMap' = [u \in Range(present) |-> globalMapByUID[u]]
              /\ uidQueue' = present \o <<Sentinel>>
              /\ pc' = "bfs"
  /\ UNCHANGED <<objects, pending, globalMapByUID, globalMapByKey, nodes, todo,
                 bfsExpanded>>
  /\ UNCHANGED printVars
  /\ UNCHANGED <<listVars, tableVars>>

\* len(uidQueue) <= 1: only the sentinel is left
EndTraversal ==
  /\ pc = "bfs"
  /\ Len(uidQueue) <= 1
  /\ pc' = "resolved"
  /\ UNCHANGED <<objects, pending, globalMapByUID, globalMapByKey, nodes, todo>>
  /\ UNCHANGED resolveVars
  /\ UNCHANGED printVars
  /\ UNCHANGED <<listVars, tableVars>>

SameLayer(d) == d

NextLayer(d) == d + 1

\* the sentinel is at the head: a layer ends
PopSentinel ==
  /\ pc = "bfs"
  /\ Len(uidQueue) > 1
  /\ Head(uidQueue) = Sentinel
  /\ depth < MaxLayers
  /\ depth' = NextLayer(depth)
  /\ uidQueue' = Tail(uidQueue) \o <<Sentinel>>
  /\ UNCHANGED <<objects, pending, globalMapByUID, globalMapByKey, nodes, todo,
                 pc, uids, depsIsDependencies, nodeMap, uidSet, bfsExpanded>>
  /\ UNCHANGED printVars
  /\ UNCHANGED <<listVars, tableVars>>

NeverVisited(uid, visited) == FALSE

\* the cycle guard
Visited(uid, visited) == uid \in visited

SkipVisited ==
  /\ pc = "bfs"
  /\ Len(uidQueue) > 1
  /\ Head(uidQueue) # Sentinel
  /\ Visited(Head(uidQueue), uidSet)
  /\ uidQueue' = Tail(uidQueue)
  /\ UNCHANGED <<objects, pending, globalMapByUID, globalMapByKey, nodes, todo,
                 pc, uids, depsIsDependencies, depth, nodeMap, uidSet, bfsExpanded>>
  /\ UNCHANGED printVars
  /\ UNCHANGED <<listVars, tableVars>>

\* nodes keep the smallest depth they are met at
SmallestDepth(old, d) == IF old = 0 \/ d < old THEN d ELSE old

KeepNodeMap(m, deps) == m

\* nodeMap[depUID] = globalMapByUID[depUID] for every neighbour
PutDeps(m, deps) ==
  [u \in DOMAIN m \cup DOMAIN deps |->
     IF u \in DOMAIN deps THEN Lookup(globalMapByUID, u) ELSE m[u]]

\* an unvisited UID is at the head: mark it, set its node's depth, put its
\* neighbours into the NodeMap and append them to the queue in the order of
\* the map range; a UID whose NodeMap entry is nil stays at the head
Expand ==
  /\ pc = "bfs"
  /\ Len(uidQueue) > 1
  /\ Head(uidQueue) # Sentinel
  /\ ~Visited(Head(uidQueue), uidSet)
  /\ LET uid == Head(uidQueue)
         node == Lookup(nodeMap, uid)
     IN  /\ uidSet' = uidSet \cup {uid}
         /\ IF node # NilNode
            THEN LET deps == GetDeps(nodes[node], depsIsDependencies)
                 IN  /\ nodes' = [nodes EXCEPT ![node].Depth = SmallestDepth(@, depth)]
                     /\ nodeMap' = PutDeps(nodeMap, deps)
                     /\ \E depUIDs \in Perms(DOMAIN deps) :
                          uidQueue' = Tail(uidQueue) \o depUIDs
                     /\ bfsExpanded' = Put(bfsExpanded, uid, Count(bfsExpanded, uid) + 1)
            ELSE UNCHANGED <<nodes, nodeMap, uidQueue, bfsExpanded>>
  /\ UNCHANGED <<objects, pending, globalMapByUID, globalMapByKey, todo, pc, uids,
                 depsIsDependencies, depth>>
  /\ UNCHANGED printVars
  /\ UNCHANGED <<listVars, tableVars>>

(***************************************************************************)
(* Tree projection (nodeMapToTable, nodeDependentsToTableRows).  The       *)
(* recursion is run on an explicit stack; a frame is a call, first at its  *)
(* cycle guard ("enter"), then in its loop over the sorted dependents.     *)
(***************************************************************************)
\* the strings of the modelled objects in Go's string order
StrOrder ==
  << "", "ClusterRole", "ConfigMap", "Deployment", "Event", "Node", "PersistentVolume", "PersistentVolumeClaim", "Pod",
     "PodSecurityPolicy", "ReplicaSet", "Role", "RoleBinding", "Secret", "Service",
     "ServiceAccount", "agg", "apps", "bad-sel", "bad-svc", "claim-a", "claim-b", "cm", "coredns", "coredns-5d69dc75db",
     "coredns-5d69dc75db-26wjw", "coredns-abc", "coredns-token", "default", "dns",
     "events.k8s.io", "headless", "kube-dns", "kube-system", "leaf", "nouid", "other", "policy", "psp-a",
     "psp-b", "psp-rolebinding", "pv-a", "pv-b", "r", "rbac.authorization.k8s.io", "regcred", "ro", "ro-binding", "t-a", "t-n", "t-root", "t-x", "t-y", "view", "web",
     "worker-1", "worker-2", "x", "y", "z" >>

StrRank(a) == CHOOSE i \in DOMAIN StrOrder : StrOrder[i] = a

StrLess(a, b) == StrRank(a) < StrRank(b)

\* NodeList.Less: Namespace, Kind, Group, Name
NodeLess(p, q) ==
  LET a == Catalogue[p]
      b == Catalogue[q]
  IN  IF a.namespace # b.namespace THEN StrLess(a.namespace, b.namespace)
      ELSE IF a.kind # b.kind THEN StrLess(a.kind, b.kind)
      ELSE IF a.group # b.group THEN StrLess(a.group, b.group)
      ELSE StrLess(a.name, b.name)

MapOrders(D) == Perms(D)

\* the results sort.Sort can leave for the nodes of the UIDs D
SortedOrders(D) ==
  { o \in Perms(D) :
      \A i, j \in DOMAIN o : i < j => ~NodeLess(nodeMap[o[j]], nodeMap[o[i]]) }

TreeDependents(n, isDependencies) == n.Dependents

\* the neighbours the projection lists under a node: those of the direction
\* the NodeMap was resolved in (its dependents unless dependencies were
\* asked for)
TreeDeps(n, isDependencies) ==
  IF isDependencies THEN n.Dependencies ELSE n.Dependents

Frame(node, d) == [node |-> node, phase |-> "enter", todo |-> <<>>, depth |-> d]

\* a row: the object, its depth in the tree and the node it is printed under
Row(uid, d, parent) == [uid |-> uid, depth |-> d, parent |-> parent]

Top == stack[Len(stack)]

Pop == SubSeq(stack, 1, Len(stack) - 1)

ReplaceTop(f) == [stack EXCEPT ![Len(stack)] = f]

RootAlwaysFound(m, uid) == TRUE

\* root, ok := nodeMap[rootUID]
RootFound(m, uid) == uid \in DOMAIN m

\* Print and nodeMapToTable: look the root up, emit its row, call
\* nodeDependentsToTableRows(root, depth 1)
PrintTree(md) ==
  /\ pc = "resolved"
  /\ Len(uids) > 0
  /\ md \in 0..MaxDepth
  /\ maxDepth' = md
  /\ printSet' = {}
  /\ IF ~RootFound(nodeMap, uids[1])
     THEN /\ pc' = "notfound"
          /\ UNCHANGED <<stack, rows>>
     ELSE IF Lookup(nodeMap, uids[1]) = NilNode
     THEN /\ pc' = "panic"
          /\ UNCHANGED <<stack, rows>>
     ELSE /\ pc' = "print"
          /\ rows' = <<Row(UID(nodeMap[uids[1]]), 0, Sentinel)>>
          /\ stack' = <<Frame(nodeMap[uids[1]], 1)>>
  /\ UNCHANGED <<objects, pending, globalMapByUID, globalMapByKey, nodes, todo,
                 treeExpanded>>
  /\ UNCHANGED resolveVars
  /\ UNCHANGED <<listVars, tableVars>>

NeverPrinted(uid, visited) == FALSE

\* the cycle guard of the projection
Printed(uid, visited) == uid \in visited

\* entry of nodeDependentsToTableRows: the cycle guard, then
\* sortDependentsFn(node.Dependents), which dereferences nodeMap[uid] of
\* every dependent
TreeEnter ==
  /\ pc = "print"
  /\ Top.phase = "enter"
  /\ LET uid == UID(Top.node)
         d == TreeDeps(nodes[Top.node], depsIsDependencies)
     IN  IF Printed(uid, printSet)
         THEN /\ stack' = Pop
              /\ pc' = IF Len(stack) = 1 THEN "done" ELSE "print"
              /\ UNCHANGED <<printSet, treeExpanded>>
         ELSE /\ printSet' = printSet \cup {uid}
              /\ IF \E k \in DOMAIN d : Lookup(nodeMap, k) = NilNode
                 THEN /\ pc' = "panic"
                      /\ UNCHANGED <<stack, treeExpanded>>
                 ELSE /\ pc' = "print"
                      /\ treeExpanded' =
                           Put(treeExpanded, uid, Count(treeExpanded, uid) + 1)
                      /\ \E o \in SortedOrders(DOMAIN d) :
                           stack' = ReplaceTop(
                             [Top EXCEPT !.phase = "loop",
                                         !.todo = [i \in DOMAIN o |-> UID(nodeMap[o[i]])]])
  /\ UNCHANGED <<objects, pending, globalMapByUID, globalMapByKey, nodes, todo,
                 maxDepth, rows>>
  /\ UNCHANGED resolveVars
  /\ UNCHANGED <<listVars, tableVars>>

DescendsInclusive(d, md) == md = 0 \/ d <= md

\* the projection descends into a child met at depth d under bound md
Descends(d, md) == md = 0 \/ d < md

\* one iteration of the loop over the sorted dependents: look the child up,
\* emit its row, descend unless the depth bound is reached
TreeChild ==
  /\ pc = "print"
  /\ Top.phase = "loop"
  /\ Top.todo # <<>>
  /\ LET childUID == Head(Top.todo)
         rest == [Top EXCEPT !.todo = Tail(@)]
     IN  IF childUID \notin DOMAIN nodeMap
            \/ childUID \notin DOMAIN TreeDeps(nodes[Top.node], depsIsDependencies)
         THEN /\ pc' = "error"
              /\ UNCHANGED <<stack, rows>>
         ELSE IF nodeMap[childUID] = NilNode
         THEN /\ pc' = "panic"
              /\ UNCHANGED <<stack, rows>>
         ELSE /\ pc' = "print"
              /\ rows' = Append(rows, Row(UID(nodeMap[childUID]), Top.depth,
                                       UID(Top.node)))
              /\ stack' = IF Descends(Top.depth, maxDepth)
                          THEN Append(ReplaceTop(rest),
                                      Frame(nodeMap[childUID], Top.depth + 1))
                          ELSE ReplaceTop(rest)
  /\ UNCHANGED <<objects, pending, globalMapByUID, globalMapByKey, nodes, todo,
                 maxDepth, printSet, treeExpanded>>
  /\ UNCHANGED resolveVars
  /\ UNCHANGED <<listVars, tableVars>>

\* the loop is over: return to the caller
TreeReturn ==
  /\ pc = "print"
  /\ Top.phase = "loop"
  /\ Top.todo = <<>>
  /\ stack' = Pop
  /\ pc' = IF Len(stack) = 1 THEN "done" ELSE "print"
  /\ UNCHANGED <<objects, pending, globalMapByUID, globalMapByKey, nodes, todo,
                 maxDepth, printSet, rows, treeExpanded>>
  /\ UNCHANGED resolveVars
  /\ UNCHANGED <<listVars, tableVars>>

(***************************************************************************)
(* Specifications.                                                         *)
(***************************************************************************)
Next ==
  \/ \E p \in Ptrs : BuildUniverse(p)
  \/ EndBuildUniverse
  \/ \E k \in todo : OwnerPass(k)
  \/ EndOwnerPass
  \/ \E k \in todo : ExtractorPass(k)
  \/ EndExtractorPass
  \/ \E us \in RootLists, dir \in BOOLEAN : SeedRoots(us, dir)
  \/ EndTraversal
  \/ PopSentinel
  \/ SkipVisited
  \/ Expand
  \/ \E md \in 0..MaxDepth : PrintTree(md)
  \/ TreeEnter
  \/ TreeChild
  \/ TreeReturn

Spec == Init /\ [][Next]_vars

\* the program is sequential and never stops while a step is possible
FairSpec == Init /\ [][Next]_vars /\ WF_vars(Next)

(***************************************************************************)
(* Properties of the resolved graph.                                       *)
(***************************************************************************)
\* resolveDeps has returned its NodeMap
Returned == pc \notin {"build", "owner", "extract", "seed", "bfs"}

Relationships(m, uid) == IF uid \in DOMAIN m THEN m[uid] ELSE {}

\* the nodes of the returned NodeMap
MapNodes == { nodeMap[k] : k \in DOMAIN nodeMap } \ {NilNode}

\* the object a UID names
ObjectOf(uid) == { p \in objects : UID(p) = uid }

RootNodes == UNION { ObjectOf(uids[i]) : i \in DOMAIN uids }

\* the objects one edge away from p in the resolved direction
Succ(p) ==
  UNION { ObjectOf(u) : u \in IF depsIsDependencies
                              THEN DOMAIN nodes[p].Dependencies
                              ELSE DOMAIN nodes[p].Dependents }

RECURSIVE ReachWithin(_)
ReachWithin(k) ==
  IF k = 0 THEN RootNodes
  ELSE LET R == ReachWithin(k - 1) IN R \cup UNION { Succ(p) : p \in R }

Reachable == ReachWithin(Cardinality(objects))

\* length of the shortest path from the nearest root to p
Distance(p) == CHOOSE k \in 0..Cardinality(objects) :
                 /\ p \in ReachWithin(k)
                 /\ \A j \in 0..(k - 1) : p \notin ReachWithin(j)

\* C1: in every returned NodeMap, for all nodes a and b of the map and every
\* relationship R, R is in a.Dependents[b.UID] if and only if R is in
\* b.Dependencies[a.UID].
C1_EdgesBidirectional ==
  Returned =>
    \A a, b \in MapNodes :
      Relationships(nodes[a].Dependents, UID(b))
        = Relationships(nodes[b].Dependencies, UID(a))

\* a returned NodeMap, resolved towards dependencies, with an edge between
\* two of its nodes that came from a label selector
C1_Witness ==
  /\ Returned
  /\ depsIsDependencies
  /\ \E a, b \in MapNodes :
       /\ a # b
       /\ RelationshipService \in Relationships(nodes[b].Dependencies, UID(a))

\* C2: no node of a resolved graph has its own UID as a key of its
\* Dependents or of its Dependencies, also when its label selector matches
\* itself or an owner reference names its own UID.
C2_NoSelfEdges ==
  Returned =>
    \A n \in MapNodes :
      /\ UID(n) \notin DOMAIN nodes[n].Dependents
      /\ UID(n) \notin DOMAIN nodes[n].Dependencies

\* the program has stopped: the projection ended, or the NodeMap was resolved
\* for no root and there is nothing to project
Terminated ==
  \/ pc \in {"done", "notfound", "error", "panic"}
  \/ pc = "resolved" /\ uids = <<>>

\* no UID has been expanded twice by either traversal
ExpandedOnce ==
  /\ \A u \in DOMAIN bfsExpanded : bfsExpanded[u] <= 1
  /\ \A u \in DOMAIN treeExpanded : treeExpanded[u] <= 1

\* C3: the traversal of the resolver and the tree projection both come to
\* an end, and neither expands the neighbours of a node more than once.
C3_TraversalsTerminate == []ExpandedOnce /\ <>Terminated

\* the projection has finished over a graph with a cycle among the
\* dependents, which the traversal has expanded
C3_Witness ==
  /\ pc = "done"
  /\ \E a, b \in MapNodes :
       /\ a # b
       /\ UID(b) \in DOMAIN nodes[a].Dependents
       /\ UID(a) \in DOMAIN nodes[b].Dependents
       /\ Count(bfsExpanded, UID(a)) = 1 /\ Count(bfsExpanded, UID(b)) = 1
       /\ Count(treeExpanded, UID(a)) = 1 /\ Count(treeExpanded, UID(b)) = 1

\* C4: the returned NodeMap holds exactly the objects reachable from the
\* roots present in the universe along edges of the chosen direction, at
\* any distance.
C4_ExactlyReachable ==
  Returned =>
    /\ DOMAIN nodeMap = { UID(p) : p \in Reachable }
    /\ \A k \in DOMAIN nodeMap : nodeMap[k] \in ObjectOf(k)

\* a returned NodeMap with an object two edges from the root, while another
\* object of the universe is unreachable and left out
C4_Witness ==
  /\ Returned
  /\ \E p \in MapNodes : Distance(p) = 2
  /\ \E q \in objects : q \notin Reachable /\ UID(q) \notin DOMAIN nodeMap

\* C5: after resolution every node of the NodeMap has Depth equal to the
\* length of the shortest path from the nearest root; roots have Depth 0.
C5_DepthIsShortestPath ==
  Returned =>
    \A p \in MapNodes : nodes[p].Depth = Distance(p)

\* two roots, one a dependent of the other, and a node two layers down
C5_Witness ==
  /\ Returned
  /\ \E r1, r2 \in RootNodes :
       /\ r1 # r2
       /\ r2 \in Succ(r1)
       /\ nodes[r2].Depth = 0
  /\ \E p \in MapNodes : nodes[p].Depth = 1

(***************************************************************************)
(* Properties of the owner pass and of the extractors.                     *)
(***************************************************************************)
\* relationship R is recorded, in both halves, from dependent a to
\* dependency b
Depends(a, b, R) ==
  /\ R \in Relationships(nodes[a].Dependencies, UID(b))
  /\ R \in Relationships(nodes[b].Dependents, UID(a))

\* neither half of such a record exists
Unrelated(a, b, R) ==
  /\ R \notin Relationships(nodes[a].Dependencies, UID(b))
  /\ R \notin Relationships(nodes[b].Dependents, UID(a))

OwnerRefsTo(o, q) == { ref \in Catalogue[o].owners : ref.uid = UID(q) }

RootedAt(uid, isDependencies) ==
  Returned /\ uids = <<uid>> /\ depsIsDependencies = isDependencies

\* C6: every owner reference whose UID is in the universe makes the owner a
\* dependency of the object with OwnerReference, and with
\* ControllerReference exactly when controller=true; owner references to
\* absent UIDs add nothing; the chain Deployment <- ReplicaSet <- Pod
\* resolves from the Deployment towards dependents to depths 0, 1, 2.
C6_OwnerPass ==
  /\ Returned =>
       \A o, q \in objects :
         /\ IF OwnerRefsTo(o, q) # {}
            THEN Depends(o, q, RelationshipOwnerRef)
            ELSE Unrelated(o, q, RelationshipOwnerRef)
         /\ IF \E ref \in OwnerRefsTo(o, q) : ref.controller
            THEN Depends(o, q, RelationshipControllerRef)
            ELSE Unrelated(o, q, RelationshipControllerRef)
         /\ DOMAIN nodes[o].Dependencies \subseteq { UID(p) : p \in objects }
         /\ DOMAIN nodes[o].Dependents \subseteq { UID(p) : p \in objects }
  /\ RootedAt("d", FALSE) /\ {1, 2, 3} \subseteq objects =>
       /\ {"d", "rs", "pod"} \subseteq DOMAIN nodeMap
       /\ objects = {1, 2, 3} => DOMAIN nodeMap = {"d", "rs", "pod"}
       /\ nodes[1].Depth = 0 /\ nodes[2].Depth = 1 /\ nodes[3].Depth = 2

\* the chain resolved from the Deployment, in a universe that also holds an
\* object with a non-controller reference and a reference to an absent UID
C6_Witness ==
  /\ RootedAt("d", FALSE)
  /\ objects = {1, 2, 3, 4}
  /\ nodes[3].Depth = 2
  /\ nodes[4].Depth = 1

\* the Pods the selector of Service s selects, as the scenario states it; a
\* manifest that is no corev1.Service, or holds no valid selector, selects none
Selects(s, p) ==
  /\ ~Catalogue[s].undecodable
  /\ \A pair \in Catalogue[s].selector : pair[2] \notin InvalidLabelValues
  /\ Catalogue[p].group = GroupCore /\ Catalogue[p].kind = "Pod"
  /\ Catalogue[p].namespace = Catalogue[s].namespace
  /\ SelectorMatches(Catalogue[s].selector, Catalogue[p].labels)

IsPod(p) == Catalogue[p].group = GroupCore /\ Catalogue[p].kind = "Pod"

IsService(p) == Catalogue[p].group = GroupCore /\ Catalogue[p].kind = "Service"

Linked(a, b, R) == Depends(a, b, R) \/ Depends(b, a, R)

InvolvedObjectUID(e) == GetNestedString(Catalogue[e], <<"involvedObject", "uid">>)

IsEvent(p, group) == Catalogue[p].group = group /\ Catalogue[p].kind = "Event"

\* C8: every core-group Event whose involvedObject.uid is the UID of an
\* object of the universe is a dependent of that object with
\* EventRegarding, and is in the NodeMap resolved from that object towards
\* dependents.
C8_CoreEventByUID ==
  Returned =>
    \A e, q \in objects :
      IsEvent(e, GroupCore) /\ InvolvedObjectUID(e) = UID(q) =>
        /\ Depends(e, q, RelationshipEventRegarding)
        /\ RootedAt(UID(q), FALSE) => UID(e) \in DOMAIN nodeMap

\* the names a by-UID reference may use for Node q besides its UID
Aliases(q) == {Catalogue[q].name} \cup Hostnames(Catalogue[q])

\* C9: a by-UID reference holding the name of a core-group Node, or the
\* value of its hostname label, resolves to that Node; an events.k8s.io
\* Event whose regarding.uid is such a value is a dependent of the Node with
\* EventRegarding, stored under the Node's UID, and is in the NodeMap
\* resolved from the Node's UID towards dependents.
C9_NodeAliases ==
  Returned =>
    \A q \in objects :
      IsNode(Catalogue[q]) =>
        /\ \A a \in Aliases(q) : Lookup(globalMapByUID, a) = q
        /\ \A e \in objects :
             /\ IsEvent(e, GroupEvents)
             /\ GetNestedString(Catalogue[e], <<"regarding", "uid">>) \in Aliases(q)
             => /\ Depends(e, q, RelationshipEventRegarding)
                /\ DOMAIN nodes[e].Dependencies \subseteq { UID(p) : p \in objects }
                /\ RootedAt(UID(q), FALSE) => UID(e) \in DOMAIN nodeMap

\* an Event that names a Node by its hostname label, resolved from the
\* Node's UID
C9_Witness ==
  /\ RootedAt("n2", FALSE)
  /\ {8, 10} \subseteq objects
  /\ "ev2" \in DOMAIN nodeMap
  /\ RelationshipEventRegarding \in Relationships(nodes[8].Dependents, "ev2")

\* a rule matches PodSecurityPolicy use, as the scenario states it
RuleMatches(r) ==
  /\ r.apiGroups \cap {"*", "extensions", "policy"} # {}
  /\ r.resources \cap {"*", "podsecuritypolicies"} # {}
  /\ r.verbs \cap {"*", "use"} # {}

IsPSP(p) == Catalogue[p].group = "policy" /\ Catalogue[p].kind = "PodSecurityPolicy"

IsRoleKind(p, kind) ==
  Catalogue[p].group = "rbac.authorization.k8s.io" /\ Catalogue[p].kind = kind

\* the rules of role p link it to PodSecurityPolicy q
RulesSelect(p, q) ==
  \E r \in Catalogue[p].rules :
    /\ RuleMatches(r)
    /\ r.resourceNames = {} \/ Catalogue[q].name \in r.resourceNames

RoleLinks(p, q, R) ==
  /\ IF RulesSelect(p, q) THEN Depends(p, q, R) ELSE Unrelated(p, q, R)
  /\ Unrelated(q, p, R)
  /\ RootedAt(UID(p), TRUE) => (UID(q) \in DOMAIN nodeMap <=> RulesSelect(p, q))

\* C10: a ClusterRole or Role has a PodSecurityPolicy of group policy as
\* dependency, with ClusterRolePolicyRule respectively RolePolicyRule,
\* exactly when one of its rules matches (apiGroups, resources and verbs
\* each hold one of the listed values) and either has no resourceNames or
\* names the policy; resolved from the role towards dependencies exactly
\* those policies are reached.
C10_PolicyRules ==
  Returned =>
    \A p, q \in objects :
      IsPSP(q) =>
        /\ IsRoleKind(p, "ClusterRole") =>
             RoleLinks(p, q, RelationshipClusterRolePolicyRule)
        /\ IsRoleKind(p, "Role") => RoleLinks(p, q, RelationshipRolePolicyRule)

\* scenario S6: a ClusterRole with a matching rule without resourceNames,
\* resolved towards dependencies, reaches both policies
C10_Witness ==
  /\ RootedAt("r", TRUE)
  /\ {12, 19, 20} \subseteq objects
  /\ {"pa", "pb"} \subseteq DOMAIN nodeMap

(***************************************************************************)
(* Properties of the tree projection.                                      *)
(***************************************************************************)
\* the UIDs of the emitted rows, in order
RowUIDs == [i \in DOMAIN rows |-> rows[i].uid]

\* C11: with max-depth k > 0 every emitted row below the root lies at tree
\* depth <= k and no call runs below depth k; with max-depth 0 the
\* projection descends without bound.  For the owner chain of four resolved
\* from its head towards dependents, depth 2 emits exactly the first three
\* objects and depth 0 all four.
C11_DepthBound ==
  /\ maxDepth > 0 =>
       /\ \A i \in DOMAIN rows : rows[i].depth <= maxDepth
       /\ \A i \in DOMAIN stack : stack[i].depth <= maxDepth
  /\ pc = "done" /\ objects = {1, 2, 3, 30} /\ RootedAt("d", FALSE) =>
       /\ maxDepth = 1 => RowUIDs = <<"d", "rs">>
       /\ maxDepth = 2 => RowUIDs = <<"d", "rs", "pod">>
       /\ maxDepth = 0 => RowUIDs = <<"d", "rs", "pod", "leaf">>

\* the chain of four projected with depth 2: three rows, the fourth object
\* is in the NodeMap and has no row
C11_Witness ==
  /\ pc = "done"
  /\ objects = {1, 2, 3, 30}
  /\ RootedAt("d", FALSE)
  /\ maxDepth = 2
  /\ Len(rows) = 3
  /\ "leaf" \in DOMAIN nodeMap

\* the UIDs of the rows printed under the node with UID u
RowsUnder(u) == { rows[i].uid : i \in { j \in DOMAIN rows : rows[j].parent = u } }

\* the neighbours of the node with UID u in the direction of the resolution
ChosenNeighbours(u) ==
  IF depsIsDependencies
  THEN DOMAIN nodes[nodeMap[u]].Dependencies
  ELSE DOMAIN nodes[nodeMap[u]].Dependents

MaxListNamespaces == 2

NamespaceNames == <<"a", "b", "c", "d">>

\* the namespaces of the cluster
ClusterNamespaces == { NamespaceNames[i] : i \in 1..MaxListNamespaces }

\* the API resources discovery returns: one namespaced, one cluster-scoped
APIResource(name, namespaced) == [Name |-> name, Namespaced |-> namespaced]

APIResources == {APIResource("pods", TRUE), APIResource("nodes", FALSE)}

\* the objects of the cluster: a Pod in every namespace and a Node
ClusterObjects ==
  { [api |-> "pods", namespace |-> ns] : ns \in ClusterNamespaces }
    \cup { [api |-> "nodes", namespace |-> ""] }

\* what the server answers to a list call
ListOutcomes == {"ok", "Forbidden", "NotFound", "Other"}

\* listByAPI: a resource that is not namespaced, or the namespace "", is
\* listed at the cluster scope; Forbidden and other failures are returned,
\* NotFound ends the paging loop with what was read
listByAPI(api, ns, outcome) ==
  LET isClusterScopeRequest == ~api.Namespaced \/ ns = ""
      found == { o \in ClusterObjects :
                   /\ o.api = api.Name
                   /\ isClusterScopeRequest \/ o.namespace = ns }
  IN  CASE outcome = "ok" -> [Items |-> found, err |-> "nil"]
        [] outcome = "NotFound" -> [Items |-> {}, err |-> "nil"]
        [] OTHER -> [Items |-> {}, err |-> outcome]

\* items = append(items, objs.Items...)
AppendItems(items, objs) ==
  [o \in DOMAIN items |-> IF o \in objs THEN items[o] + 1 ELSE items[o]]

\* errgroup: the first non-nil error a goroutine returns is the group's
FirstError(group, g, err) ==
  IF group[g] = "nil" THEN [group EXCEPT ![g] = err] ELSE group

isClusterScopeRequest == listOpts = {} \/ "" \in listOpts

nsSet == listOpts \ {""}

graphVars == <<objects, pending, globalMapByUID, globalMapByKey, nodes, pc, todo>>

\* List after GetAPIResources and the namespace set: the goroutines start
ListInit ==
  /\ TableIdle
  /\ objects = {}
  /\ pending = {}
  /\ globalMapByUID = EmptyMap
  /\ globalMapByKey = EmptyMap
  /\ nodes = EmptyMap
  /\ pc = "idle"
  /\ todo = {}
  /\ uids = <<>>
  /\ depsIsDependencies = FALSE
  /\ depth = 0
  /\ nodeMap = EmptyMap
  /\ uidQueue = <<>>
  /\ uidSet = {}
  /\ bfsExpanded = EmptyMap
  /\ maxDepth = 0
  /\ stack = <<>>
  /\ printSet = {}
  /\ rows = <<>>
  /\ treeExpanded = EmptyMap
  /\ listPc = "run"
  /\ listOpts \in SUBSET (ClusterNamespaces \cup {""})
  /\ listErr = "nil"
  /\ listItems = [o \in ClusterObjects |-> 0]
  /\ listOuter = [api \in APIResources |-> "start"]
  /\ listInner = [g \in APIResources \X ClusterNamespaces |-> "idle"]
  /\ listGroup = [g \in {api.Name : api \in APIResources} \cup {"eg"} |-> "nil"]
  /\ listCalls = {}
  /\ listResult = "none"

\* the goroutine of an API resource, cluster scope requested: list at the
\* cluster scope; only a namespaced resource that is Forbidden there goes on
\* to the namespaces
ClusterScopeList(api, outcome) ==
  /\ listPc = "run"
  /\ listOuter[api] = "start"
  /\ isClusterScopeRequest
  /\ LET r == listByAPI(api, "", outcome)
         err == IF ~api.Namespaced /\ r.err = "Forbidden" THEN "nil" ELSE r.err
     IN  /\ listItems' = AppendItems(listItems, r.Items)
         /\ listCalls' = listCalls \cup {<<api, "", outcome>>}
         /\ IF ~api.Namespaced \/ err # "Forbidden"
            THEN /\ listOuter' = [listOuter EXCEPT ![api] = "done"]
                 /\ listGroup' = FirstError(listGroup, "eg", err)
            ELSE /\ listOuter' = [listOuter EXCEPT ![api] = "spawn"]
                 /\ UNCHANGED listGroup
  /\ UNCHANGED <<listPc, listOpts, listErr, listInner, listResult>>
  /\ UNCHANGED <<graphVars, resolveVars, printVars, tableVars>>

\* namespaceScopeListFn: one goroutine per namespace of nsSet
NamespaceScopeList(api) ==
  /\ listPc = "run"
  /\ listOuter[api] = IF isClusterScopeRequest THEN "spawn" ELSE "start"
  /\ listOuter' = [listOuter EXCEPT ![api] = "wait"]
  /\ listInner' = [g \in DOMAIN listInner |->
                     IF g[1] = api /\ g[2] \in nsSet THEN "call" ELSE listInner[g]]
  /\ UNCHANGED <<listPc, listOpts, listErr, listItems, listGroup, listCalls,
                 listResult>>
  /\ UNCHANGED <<graphVars, resolveVars, printVars, tableVars>>

\* a namespace goroutine: err = listFn(), err being the variable of List
InnerList(api, ns, outcome) ==
  /\ listPc = "run"
  /\ listInner[<<api, ns>>] = "call"
  /\ LET r == listByAPI(api, ns, outcome)
     IN  /\ listItems' = AppendItems(listItems, r.Items)
         /\ listErr' = r.err
  /\ listCalls' = listCalls \cup {<<api, ns, outcome>>}
  /\ listInner' = [listInner EXCEPT ![<<api, ns>>] = "check"]
  /\ UNCHANGED <<listPc, listOpts, listOuter, listGroup, listResult>>
  /\ UNCHANGED <<graphVars, resolveVars, printVars, tableVars>>

\* if apierrors.IsForbidden(err) { err = nil }
InnerSuppress(api, ns) ==
  /\ listPc = "run"
  /\ listInner[<<api, ns>>] = "check"
  /\ listErr' = IF listErr = "Forbidden" THEN "nil" ELSE listErr
  /\ listInner' = [listInner EXCEPT ![<<api, ns>>] = "return"]
  /\ UNCHANGED <<listPc, listOpts, listItems, listOuter, listGroup, listCalls,
                 listResult>>
  /\ UNCHANGED <<graphVars, resolveVars, printVars, tableVars>>

\* return err
InnerReturn(api, ns) ==
  /\ listPc = "run"
  /\ listInner[<<api, ns>>] = "return"
  /\ listGroup' = FirstError(listGroup, api.Name, listErr)
  /\ listInner' = [listInner EXCEPT ![<<api, ns>>] = "done"]
  /\ UNCHANGED <<listPc, listOpts, listErr, listItems, listOuter, listCalls,
                 listResult>>
  /\ UNCHANGED <<graphVars, resolveVars, printVars, tableVars>>

\* return egInner.Wait()
InnerWait(api) ==
  /\ listPc = "run"
  /\ listOuter[api] = "wait"
  /\ \A ns \in nsSet : listInner[<<api, ns>>] = "done"
  /\ listOuter' = [listOuter EXCEPT ![api] = "done"]
  /\ listGroup' = FirstError(listGroup, "eg", listGroup[api.Name])
  /\ UNCHANGED <<listPc, listOpts, listErr, listItems, listInner, listCalls,
                 listResult>>
  /\ UNCHANGED <<graphVars, resolveVars, printVars, tableVars>>

\* eg.Wait() and the return of List
ListReturn ==
  /\ listPc = "run"
  /\ \A api \in APIResources : listOuter[api] = "done"
  /\ listPc' = "returned"
  /\ listResult' = IF listGroup["eg"] # "nil"
                   THEN [Items |-> [o \in ClusterObjects |-> 0], err |-> listGroup["eg"]]
                   ELSE [Items |-> listItems, err |-> "nil"]
  /\ UNCHANGED <<listOpts, listErr, listItems, listOuter, listInner, listGroup,
                 listCalls>>
  /\ UNCHANGED <<graphVars, resolveVars, printVars, tableVars>>

ListNext ==
  \/ \E api \in APIResources, outcome \in ListOutcomes : ClusterScopeList(api, outcome)
  \/ \E api \in APIResources : NamespaceScopeList(api)
  \/ \E api \in APIResources, ns \in ClusterNamespaces, outcome \in ListOutcomes :
       InnerList(api, ns, outcome)
  \/ \E api \in APIResources, ns \in ClusterNamespaces : InnerSuppress(api, ns)
  \/ \E api \in APIResources, ns \in ClusterNamespaces : InnerReturn(api, ns)
  \/ \E api \in APIResources : InnerWait(api)
  \/ ListReturn

ListSpec == ListInit /\ [][ListNext]_vars

(***************************************************************************)
(* Properties of Client.List.                                              *)
(***************************************************************************)
ListReturned == listPc = "returned"

DeniedCalls == { c \in listCalls : c[3] = "Forbidden" }

FailedCalls == { c \in listCalls : c[3] = "Other" }

\* the objects of the list calls that succeeded, call by call
ItemsOfCalls ==
  [o \in ClusterObjects |->
     Cardinality({ c \in listCalls :
                     c[3] = "ok" /\ o \in listByAPI(c[1], c[2], "ok").Items })]

\* the returned list carries a mark that it may be incomplete
Annotated(result) == "Incomplete" \in DOMAIN result

\* C13: denied (Forbidden) list calls are not fatal - List returns the objects
\* of the calls that were not denied, annotated as potentially incomplete -
\* and any other list failure makes List return an error.
C13_ForbiddenNonFatal ==
  ListReturned =>
    /\ FailedCalls # {} => listResult.err # "nil"
    /\ FailedCalls = {} =>
         /\ listResult.err = "nil"
         /\ listResult.Items = ItemsOfCalls
         /\ DeniedCalls # {} => Annotated(listResult)

\* C14: whatever namespaces are requested, with or without the cluster
\* scope, each cluster object appears at most once in the returned list.
C14_Deduplicated ==
  ListReturned /\ listResult.err = "nil" =>
    \A o \in ClusterObjects : listResult.Items[o] <= 1

(***************************************************************************)
(* Roots that are missing from the universe.                               *)
(***************************************************************************)
ProjectionCalled == pc \in {"notfound", "print", "done", "error", "panic"}

AbsentRoots == { u \in Range(uids) : ~IsPresent(u) }

\* C15: a root UID that is not in the universe yields an empty NodeMap and no
\* resolver error, and Print reports it as "requested object not found"; of
\* several roots the absent ones are ignored and the present ones resolved.
C15_MissingRoot ==
  /\ Returned =>
       /\ \A u \in Range(uids) : u \in DOMAIN nodeMap <=> u \notin AbsentRoots
       /\ AbsentRoots = Range(uids) => nodeMap = EmptyMap
       /\ \A p \in RootNodes : \A q \in Succ(p) : UID(q) \in DOMAIN nodeMap
  /\ ProjectionCalled => (pc = "notfound" <=> uids[1] \in AbsentRoots)

C15_Witness ==
  /\ pc = "notfound"
  /\ Len(uids) = 2
  /\ uids[1] = AbsentUID
  /\ uids[2] \in DOMAIN nodeMap
  /\ Cardinality(DOMAIN nodeMap) > 1

(***************************************************************************)
(* Extraction errors.                                                      *)
(***************************************************************************)
Failing == { p \in objects : HasExtractor(Catalogue[p]) /\ (Catalogue[p].undecodable
                               \/ \E pair \in Catalogue[p].selector :
                                    pair[2] \in InvalidLabelValues) }

\* the edges of the graph in which a failing object contributes only its
\* owner-reference edges
EdgesWithoutFailing ==
  UNION { OwnerEdges(p) : p \in objects }
    \cup UNION { updateRelationships(p, GetRelationships(Catalogue[p]))
                 : p \in { q \in objects \ Failing : HasExtractor(Catalogue[q]) } }

GraphWithoutFailing == WriteEdges([p \in objects |-> NewNode], EdgesWithoutFailing)

\* C16: an extraction error on one object does not abort resolution and does
\* not change the edges of any other object: the resolved graph is the graph
\* in which the failing object contributes only its owner-reference edges,
\* and resolveDeps returns no error.
C16_ExtractionErrorSkipped ==
  Returned =>
    /\ \A u \in Range(uids) : IsPresent(u) => u \in DOMAIN nodeMap
    /\ \A p \in objects :
         /\ nodes[p].Dependencies = GraphWithoutFailing[p].Dependencies
         /\ nodes[p].Dependents = GraphWithoutFailing[p].Dependents

C16_Witness ==
  /\ Returned
  /\ objects = {1, 3, 5, 31}
  /\ Depends(31, 1, RelationshipOwnerRef)
  /\ Depends(5, 3, RelationshipService)
  /\ Unrelated(31, 3, RelationshipService)

(***************************************************************************)
(* The helm command: the dependents of the release objects and of the      *)
(* storage object are resolved, the node of the release is put above them  *)
(* and the tree is printed from it.                                        *)
(***************************************************************************)
ReleaseNode == Len(Catalogue)

\* rootNode.AddDependent for the release objects and for the storage object
newReleaseNode(rlsObjs, stgObj) ==
  [NewNode EXCEPT !.Dependents =
     [u \in rlsObjs \cup stgObj |->
        (IF u \in rlsObjs THEN {RelationshipHelmRelease} ELSE {})
          \cup (IF u \in stgObj THEN {RelationshipHelmStorage} ELSE {})]]

\* Run after ResolveDependents: uids holds the UIDs of the release objects,
\* all of them among the resolved objects, and then the UID of the storage
\* object if there is one; the storage object is not added to the objects
HelmRelease(hasStorage) ==
  /\ pc = "resolved"
  /\ ~depsIsDependencies
  /\ hasStorage => Len(uids) > 0
  /\ LET k == IF hasStorage THEN Len(uids) - 1 ELSE Len(uids)
         rlsObjs == { uids[i] : i \in 1..k }
         stgObj == { uids[i] : i \in (k + 1)..Len(uids) }
     IN  /\ \A u \in rlsObjs : IsPresent(u)
         /\ nodes' = Put([p \in DOMAIN nodes |->
                            IF p \in MapNodes
                            THEN [nodes[p] EXCEPT !.Depth = @ + 1]
                            ELSE nodes[p]],
                         ReleaseNode, newReleaseNode(rlsObjs, stgObj))
  /\ nodeMap' = Put(nodeMap, UID(ReleaseNode), ReleaseNode)
  /\ pc' = "released"
  /\ UNCHANGED <<objects, pending, globalMapByUID, globalMapByKey, todo, uids,
                 depsIsDependencies, depth, uidQueue, uidSet, bfsExpanded>>
  /\ UNCHANGED printVars
  /\ UNCHANGED <<listVars, tableVars>>

\* o.Printer.Print(o.Out, nodeMap, rootUID, *o.Flags.Depth)
HelmPrint(md) ==
  /\ pc = "released"
  /\ md \in 0..MaxDepth
  /\ maxDepth' = md
  /\ printSet' = {}
  /\ IF ~RootFound(nodeMap, UID(ReleaseNode))
     THEN /\ pc' = "notfound"
          /\ UNCHANGED <<stack, rows>>
     ELSE /\ pc' = "print"
          /\ rows' = <<Row(UID(ReleaseNode), 0, Sentinel)>>
          /\ stack' = <<Frame(nodeMap[UID(ReleaseNode)], 1)>>
  /\ UNCHANGED <<objects, pending, globalMapByUID, globalMapByKey, nodes, todo,
                 treeExpanded>>
  /\ UNCHANGED resolveVars
  /\ UNCHANGED <<listVars, tableVars>>

HelmNext ==
  \/ \E p \in Ptrs : BuildUniverse(p)
  \/ EndBuildUniverse
  \/ \E k \in todo : OwnerPass(k)
  \/ EndOwnerPass
  \/ \E k \in todo : ExtractorPass(k)
  \/ EndExtractorPass
  \/ \E us \in RootLists, dir \in BOOLEAN : SeedRoots(us, dir)
  \/ EndTraversal
  \/ PopSentinel
  \/ SkipVisited
  \/ Expand
  \/ \E hasStorage \in BOOLEAN : HelmRelease(hasStorage)
  \/ \E md \in 0..MaxDepth : HelmPrint(md)
  \/ TreeEnter
  \/ TreeChild
  \/ TreeReturn

HelmSpec == Init /\ [][HelmNext]_vars

\* the projection has entered a node with a neighbour that the NodeMap lacks
MetMissingNeighbour ==
  \E u \in printSet :
    \E k \in DOMAIN TreeDeps(nodes[nodeMap[u]], depsIsDependencies) :
      k \notin DOMAIN nodeMap

\* C17: when the projector meets a neighbour UID that is missing from the
\* NodeMap it returns an error value ("dependent object not found") to its
\* caller; it neither crashes nor skips the neighbour.
C17_MissingNeighbourIsError ==
  /\ pc # "panic"
  /\ pc = "done" => ~MetMissingNeighbour

(***************************************************************************)
(* Determinism of the projection.                                          *)
(***************************************************************************)
\* the sort key of a node: Namespace, Kind, Group, Name
SortKey(uid) ==
  LET o == Catalogue[nodeMap[uid]]
  IN  <<StrRank(o.namespace), StrRank(o.kind), StrRank(o.group), StrRank(o.name)>>

\* lexicographic order of two keys
KeyLess(a, b) ==
  \E i \in 1..4 : a[i] < b[i] /\ \A j \in 1..(i - 1) : a[j] = b[j]

\* the UIDs D in the order of their keys
InKeyOrder(D) ==
  CHOOSE o \in Perms(D) : \A i, j \in DOMAIN o : i < j => ~KeyLess(SortKey(o[j]), SortKey(o[i]))

RECURSIVE RowsBelow(_, _, _)
RECURSIVE RowsOfChildren(_, _, _, _)

\* the rows and the visited set after the neighbours of u are listed at depth d
RowsBelow(u, d, acc) ==
  IF u \in acc.seen THEN acc
  ELSE RowsOfChildren(
         InKeyOrder(DOMAIN TreeDeps(nodes[nodeMap[u]], depsIsDependencies)),
         u, d, [acc EXCEPT !.seen = @ \cup {u}])

RowsOfChildren(children, parent, d, acc) ==
  IF children = <<>> THEN acc
  ELSE LET c == Head(children)
           listed == [acc EXCEPT !.rows = Append(@, Row(c, d, parent))]
       IN  RowsOfChildren(Tail(children), parent, d,
                          IF maxDepth = 0 \/ d < maxDepth
                          THEN RowsBelow(c, d + 1, listed)
                          ELSE listed)

\* the one row sequence that NodeMap, root, direction and max-depth determine
RowsOfInputs ==
  RowsBelow(uids[1], 1, [rows |-> <<Row(uids[1], 0, Sentinel)>>, seen |-> {}]).rows

\* C18: for a given NodeMap, root, direction and max-depth the emitted rows
\* are the same on every run, whatever order the ranges over the hash maps
\* take; siblings are ordered by (Namespace, Kind, Group, Name).
C18_ProjectionDeterministic ==
  pc = "done" =>
    /\ rows = RowsOfInputs
    /\ \A i, j \in DOMAIN rows :
         i < j /\ i > 1 /\ rows[i].parent = rows[j].parent
           /\ rows[i].depth = rows[j].depth =>
             KeyLess(SortKey(rows[i].uid), SortKey(rows[j].uid))

C18_Witness ==
  /\ pc = "done"
  /\ objects = {1, 2, 3, 4}
  /\ RootedAt("d", FALSE)
  /\ RowUIDs = <<"d", "other", "rs", "pod">>

(***************************************************************************)
(* RoleBindings.                                                           *)
(***************************************************************************)
IsRoleBinding(p) == Catalogue[p].group = GroupRBAC /\ Catalogue[p].kind = "RoleBinding"

\* the object roleRef of RoleBinding b names: a ClusterRole of that name, or
\* the Role of that name in the namespace of b
RoleRefNames(b, r) ==
  /\ Catalogue[r].group = Catalogue[b].roleRef.apiGroup
  /\ Catalogue[r].kind = Catalogue[b].roleRef.kind
  /\ Catalogue[r].name = Catalogue[b].roleRef.name
  /\ \/ Catalogue[r].kind = "ClusterRole" /\ Catalogue[r].namespace = ""
     \/ Catalogue[r].kind = "Role" /\ Catalogue[r].namespace = Catalogue[b].namespace

\* C19: a RoleBinding whose roleRef names a ClusterRole has that ClusterRole
\* as dependency with relationship RoleBindingRole, and a RoleBinding whose
\* roleRef names a Role is linked to the Role of that name in its namespace.
C19_RoleBindingRole ==
  Returned =>
    \A b, r \in objects :
      IsRoleBinding(b) /\ RoleRefNames(b, r) =>
        Depends(b, r, RelationshipRoleBindingRole)

(***************************************************************************)
(* The goroutines of Client.List and the error they return.                *)
(***************************************************************************)
\* the error of the list call the goroutine of api and ns has made
OwnError(api, ns) ==
  LET c == CHOOSE x \in listCalls : x[1] = api /\ x[2] = ns
  IN  IF c[3] \in {"ok", "NotFound"} THEN "nil" ELSE c[3]

\* C20: under every interleaving of the goroutines of List, a per-namespace
\* list call that fails with an error other than Forbidden makes List return
\* an error, and the error a goroutine tests and returns is that of its own
\* list call, never the outcome of a call running beside it.
C20_FailureNotLost ==
  /\ ListReturned /\ (\E c \in listCalls : c[2] # "" /\ c[3] = "Other") =>
       listResult.err # "nil"
  /\ \A g \in DOMAIN listInner :
       /\ listInner[g] = "check" => listErr = OwnError(g[1], g[2])
       /\ listInner[g] = "return" =>
            listErr = IF OwnError(g[1], g[2]) = "Forbidden"
                      THEN "nil" ELSE OwnError(g[1], g[2])

(***************************************************************************)
(* The sentinel of the traversal, and objects that carry no UID.           *)
(***************************************************************************)
NoUID == Len(Catalogue) - 1

\* universes with the object without UID, its owner and another dependent
EmptyUIDUniverses == { S \in SUBSET {1, 2, NoUID} : NoUID \in S }

EmptyUIDInit ==
  /\ ListIdle
  /\ TableIdle
  /\ objects \in EmptyUIDUniverses
  /\ pending = objects
  /\ globalMapByUID = EmptyMap
  /\ globalMapByKey = EmptyMap
  /\ nodes = EmptyMap
  /\ pc = "build"
  /\ todo = {}
  /\ uids = <<>>
  /\ depsIsDependencies = FALSE
  /\ depth = 0
  /\ nodeMap = EmptyMap
  /\ uidQueue = <<>>
  /\ uidSet = {}
  /\ bfsExpanded = EmptyMap
  /\ maxDepth = 0
  /\ stack = <<>>
  /\ printSet = {}
  /\ rows = <<>>
  /\ treeExpanded = EmptyMap

EmptyUIDSpec == EmptyUIDInit /\ [][Next]_vars

SentinelCount == Cardinality({ i \in DOMAIN uidQueue : uidQueue[i] = Sentinel })

\* C21: at every step of the traversal the queue holds exactly one sentinel,
\* so the exit test is met and the depth counter advances once per layer -
\* it never passes the number of nodes in the NodeMap - also in a universe
\* where an object reachable from a root has the empty UID.
C21_OneSentinel ==
  pc = "bfs" =>
    /\ SentinelCount = 1
    /\ depth <= Cardinality(DOMAIN nodeMap)

(***************************************************************************)
(* A UID that is also the name of a Node.                                  *)
(***************************************************************************)
NamedLikeNode == Len(Catalogue) - 2

\* universes with the Node worker-1 and the object whose UID is its name
AliasUniverses == { S \in SUBSET {7, 10, 11, NamedLikeNode} : {7, NamedLikeNode} \subseteq S }

AliasInit ==
  /\ ListIdle
  /\ TableIdle
  /\ objects \in AliasUniverses
  /\ pending = objects
  /\ globalMapByUID = EmptyMap
  /\ globalMapByKey = EmptyMap
  /\ nodes = EmptyMap
  /\ pc = "build"
  /\ todo = {}
  /\ uids = <<>>
  /\ depsIsDependencies = FALSE
  /\ depth = 0
  /\ nodeMap = EmptyMap
  /\ uidQueue = <<>>
  /\ uidSet = {}
  /\ bfsExpanded = EmptyMap
  /\ maxDepth = 0
  /\ stack = <<>>
  /\ printSet = {}
  /\ rows = <<>>
  /\ treeExpanded = EmptyMap

AliasSpec == AliasInit /\ [][Next]_vars

\* C22: in the UID index a real UID shadows a Node alias - whatever the
\* order of the object list, the UID of an object leads to that object, also
\* when it is the name or the hostname label value of a Node.
C22_RealUIDShadowsAlias ==
  pc # "build" => \A p \in objects : Lookup(globalMapByUID, UID(p)) = p

(***************************************************************************)
(* PersistentVolumes and their claims.                                     *)
(***************************************************************************)
IsPV(p) == Catalogue[p].group = GroupCore /\ Catalogue[p].kind = "PersistentVolume"

IsPVC(p) == Catalogue[p].group = GroupCore /\ Catalogue[p].kind = "PersistentVolumeClaim"

\* spec.claimRef of the PersistentVolume v names the claim c
ClaimRefNames(v, c) ==
  ClaimRef(Catalogue[c].namespace, Catalogue[c].name) \in Catalogue[v].claimRef

\* C23: the claim that spec.claimRef of a PersistentVolume names is recorded
\* as dependent of the volume with relationship PersistentVolumeClaim,
\* whether or not the claim's spec.volumeName names the volume; declared
\* from both sides it is one edge.
C23_ClaimRef ==
  Returned =>
    \A v, c \in objects :
      IsPV(v) /\ IsPVC(c) /\ ClaimRefNames(v, c) =>
        /\ Depends(c, v, RelationshipPersistentVolumeClaim)
        /\ nodes[v].Dependents[UID(c)] = {RelationshipPersistentVolumeClaim}

(***************************************************************************)
(* Order of the owner pass and of the extractor pass.                      *)
(***************************************************************************)
\* the entries of globalMapByUID each pass has visited
VisitedByOwnerPass ==
  IF pc = "build" THEN {}
  ELSE IF pc = "owner" THEN DOMAIN globalMapByUID \ todo
  ELSE DOMAIN globalMapByUID

VisitedByExtractorPass ==
  IF pc \in {"build", "owner"} THEN {}
  ELSE IF pc = "extract" THEN DOMAIN globalMapByUID \ todo
  ELSE DOMAIN globalMapByUID

\* the edges of the visited entries, as a set
EdgesOfVisited ==
  UNION { OwnerEdges(globalMapByUID[k]) : k \in VisitedByOwnerPass }
    \cup UNION { updateRelationships(globalMapByUID[k],
                                     GetRelationships(Catalogue[globalMapByUID[k]]))
                 : k \in { x \in VisitedByExtractorPass :
                             /\ HasExtractor(Catalogue[globalMapByUID[x]])
                             /\ ~ExtractError(Catalogue[globalMapByUID[x]]) } }

\* the neighbour maps a set of edges stands for, without any order of writing
DependenciesOf(p, E) ==
  [u \in { UID(e[2]) : e \in { x \in E : x[1] = p } } |->
     { e[3] : e \in { x \in E : x[1] = p /\ UID(x[2]) = u } }]

DependentsOf(p, E) ==
  [u \in { UID(e[1]) : e \in { x \in E : x[2] = p } } |->
     { e[3] : e \in { x \in E : x[2] = p /\ UID(x[1]) = u } }]

\* C24: the graph does not depend on the order in which the owner pass and
\* the extractor pass visit the entries of the UID index: at every point of
\* the two passes the Dependents and Dependencies of every node are the
\* union of the edges of the set of entries visited so far, whatever the
\* order of the visits and however often a Node was visited through its
\* alias entries.
C24_VisitOrderIndependent ==
  pc # "build" =>
    \A p \in objects :
      /\ nodes[p].Dependencies = DependenciesOf(p, EdgesOfVisited)
      /\ nodes[p].Dependents = DependentsOf(p, EdgesOfVisited)

\* the Node worker-1 was visited through its name but not yet through its
\* UID, the Pod scheduled on it was visited, the Event about it was not
C24_Witness ==
  /\ pc = "extract"
  /\ {7, 9, 11} \subseteq objects
  /\ "worker-1" \notin todo
  /\ {UID(7), UID(9)} \subseteq todo
  /\ Depends(11, 7, RelationshipPodNode)
  /\ Unrelated(9, 7, RelationshipEventRegarding)

(***************************************************************************)
(* Closure of the resolved NodeMap.                                        *)
(***************************************************************************)
\* C25: every node of the NodeMap resolveDeps returns has all the UIDs of
\* its neighbour map of the resolved direction (Dependents when dependents
\* were resolved, Dependencies otherwise) as keys of the NodeMap, each with
\* a node that is not nil; the projection in that direction does not meet a
\* missing neighbour.
C25_NodeMapClosed ==
  /\ pc # "panic"
  /\ Returned =>
       \A k \in DOMAIN nodeMap :
         nodeMap[k] # NilNode =>
           \A u \in DOMAIN TreeDeps(nodes[nodeMap[k]], depsIsDependencies) :
             /\ u \in DOMAIN nodeMap
             /\ nodeMap[u] # NilNode

\* resolved from one root, towards the dependencies, with a node two layers
\* away from the root that has a neighbour of its own
C25_Witness ==
  /\ pc = "resolved"
  /\ depsIsDependencies
  /\ Len(uids) = 1
  /\ \E k \in DOMAIN nodeMap :
       /\ nodes[nodeMap[k]].Depth = 2
       /\ DOMAIN nodes[nodeMap[k]].Dependencies # {}

(***************************************************************************)
(* The NodeMap the helm command hands to the printer.                      *)
(***************************************************************************)
\* C26: in the helm command every UID the node of the release lists as a
\* dependent (the release objects with HelmRelease, the storage object with
\* HelmStorage) is a key of the NodeMap handed to the printer, also when the
\* storage object was fetched but is not among the listed objects.
C26_ReleaseDependentsInNodeMap ==
  ReleaseNode \in DOMAIN nodes =>
    \A u \in DOMAIN nodes[ReleaseNode].Dependents : u \in DOMAIN nodeMap

(***************************************************************************)
(* Split output: nodeMapToTableByGK fetches one server table per           *)
(* (GroupKind, namespace) group in a goroutine of an errgroup; every       *)
(* goroutine stores its table in the map tableByGKAndNS, which no lock     *)
(* guards.  A statement of a goroutine is a step; a write of a Go map      *)
(* that runs together with another access of the same map is a data race,  *)
(* which the runtime may stop with a fatal error.                          *)
(***************************************************************************)
\* the kinds and namespaces of the objects to print; Kind "" is skipped
TableKinds == {"", "Pod", "Service"}

TableNamespaces == {"default", "kube-system"}

TableGroups == TableKinds \X TableNamespaces

\* what GetTable returns: a table, no table, or an error
GetTableOutcomes == {"table", "nil", "error"}

\* the rows of the table fetched for a group
TableRows(g) == << g >>

\* the groups a goroutine is started for
TableRoutines(groups) == { g \in groups : g[1] # "" }

\* nodeMapToTableByGK after the grouping: the goroutines start
TableInit ==
  /\ ListIdle
  /\ objects = {}
  /\ pending = {}
  /\ globalMapByUID = EmptyMap
  /\ globalMapByKey = EmptyMap
  /\ nodes = EmptyMap
  /\ pc = "idle"
  /\ todo = {}
  /\ uids = <<>>
  /\ depsIsDependencies = FALSE
  /\ depth = 0
  /\ nodeMap = EmptyMap
  /\ uidQueue = <<>>
  /\ uidSet = {}
  /\ bfsExpanded = EmptyMap
  /\ maxDepth = 0
  /\ stack = <<>>
  /\ printSet = {}
  /\ rows = <<>>
  /\ treeExpanded = EmptyMap
  /\ tablePc = "run"
  /\ nodesByGKAndNS \in SUBSET TableGroups
  /\ tableRoutine = [g \in TableRoutines(nodesByGKAndNS) |-> "fetch"]
  /\ tableOk = [g \in TableRoutines(nodesByGKAndNS) |-> FALSE]
  /\ tableByGKAndNS = EmptyMap
  /\ tableEg = "nil"
  /\ tableFetched = {}
  /\ tableByGK = [err |-> "none", tables |-> EmptyMap]

otherVars == <<graphVars, resolveVars, printVars, listVars>>

\* table, err := p.client.GetTable(...); if err != nil || table == nil { return err }
GetTable(g, outcome) ==
  /\ tablePc = "run"
  /\ g \in DOMAIN tableRoutine
  /\ tableRoutine[g] = "fetch"
  /\ IF outcome = "table"
     THEN /\ tableRoutine' = [tableRoutine EXCEPT ![g] = "outer"]
          /\ tableFetched' = tableFetched \cup {g}
          /\ UNCHANGED tableEg
     ELSE /\ tableRoutine' = [tableRoutine EXCEPT ![g] = "done"]
          /\ tableEg' = IF outcome = "error" /\ tableEg = "nil" THEN "error" ELSE tableEg
          /\ UNCHANGED tableFetched
  /\ UNCHANGED <<tablePc, nodesByGKAndNS, tableOk, tableByGKAndNS, tableByGK>>
  /\ UNCHANGED otherVars

\* _, ok := tableByGKAndNS[gk]
OuterCheck(g) ==
  /\ tablePc = "run"
  /\ g \in DOMAIN tableRoutine
  /\ tableRoutine[g] = "outer"
  /\ tableOk' = [tableOk EXCEPT ![g] = g[1] \in DOMAIN tableByGKAndNS]
  /\ tableRoutine' = [tableRoutine EXCEPT ![g] =
                        IF g[1] \in DOMAIN tableByGKAndNS THEN "inner" ELSE "outerWrite"]
  /\ UNCHANGED <<tablePc, nodesByGKAndNS, tableByGKAndNS, tableEg, tableFetched,
                 tableByGK>>
  /\ UNCHANGED otherVars

\* tableByGKAndNS[gk] = map[string]*metav1.Table{}
OuterWrite(g) ==
  /\ tablePc = "run"
  /\ g \in DOMAIN tableRoutine
  /\ tableRoutine[g] = "outerWrite"
  /\ tableByGKAndNS' = Put(tableByGKAndNS, g[1], EmptyMap)
  /\ tableRoutine' = [tableRoutine EXCEPT ![g] = "inner"]
  /\ UNCHANGED <<tablePc, nodesByGKAndNS, tableOk, tableEg, tableFetched, tableByGK>>
  /\ UNCHANGED otherVars

\* t, ok := tableByGKAndNS[gk][ns]
InnerCheck(g) ==
  /\ tablePc = "run"
  /\ g \in DOMAIN tableRoutine
  /\ tableRoutine[g] = "inner"
  /\ tableOk' = [tableOk EXCEPT ![g] = g[2] \in DOMAIN tableByGKAndNS[g[1]]]
  /\ tableRoutine' = [tableRoutine EXCEPT ![g] = "store"]
  /\ UNCHANGED <<tablePc, nodesByGKAndNS, tableByGKAndNS, tableEg, tableFetched,
                 tableByGK>>
  /\ UNCHANGED otherVars

\* tableByGKAndNS[gk][ns] = table, or t.Rows = append(t.Rows, table.Rows...)
\* when the namespace had a table; return nil
InnerStore(g) ==
  /\ tablePc = "run"
  /\ g \in DOMAIN tableRoutine
  /\ tableRoutine[g] = "store"
  /\ LET byNS == tableByGKAndNS[g[1]]
     IN  tableByGKAndNS' =
           IF ~tableOk[g]
           THEN [tableByGKAndNS EXCEPT ![g[1]] = Put(byNS, g[2], TableRows(g))]
           ELSE IF g[2] \in DOMAIN byNS
                THEN [tableByGKAndNS EXCEPT ![g[1]] =
                        Put(byNS, g[2], byNS[g[2]] \o TableRows(g))]
                ELSE tableByGKAndNS
  /\ tableRoutine' = [tableRoutine EXCEPT ![g] = "done"]
  /\ UNCHANGED <<tablePc, nodesByGKAndNS, tableOk, tableEg, tableFetched, tableByGK>>
  /\ UNCHANGED otherVars

\* goroutine g is about to write a map that goroutine h is about to access
RacingAccess(g, h) ==
  \/ /\ tableRoutine[g] = "outerWrite"
     /\ tableRoutine[h] \in {"outer", "outerWrite", "inner", "store"}
  \/ /\ tableRoutine[g] = "store"
     /\ ~tableOk[g]
     /\ g[1] = h[1]
     /\ tableRoutine[h] \in {"inner", "store"}

\* the two accesses run together and the runtime detects it:
\* "fatal error: concurrent map writes" (or "concurrent map read and map write")
ConcurrentMapAccess(g, h) ==
  /\ tablePc = "run"
  /\ g \in DOMAIN tableRoutine
  /\ h \in DOMAIN tableRoutine
  /\ g # h
  /\ RacingAccess(g, h)
  /\ tablePc' = "fatal"
  /\ UNCHANGED <<nodesByGKAndNS, tableRoutine, tableOk, tableByGKAndNS, tableEg,
                 tableFetched, tableByGK>>
  /\ UNCHANGED otherVars

RECURSIVE AppendByNamespace(_, _)
\* the rows of the tables of the namespaces S, in the order of the sorted
\* namespace list
AppendByNamespace(byNS, S) ==
  IF S = {} THEN <<>>
  ELSE LET ns == CHOOSE x \in S : \A y \in S \ {x} : StrLess(x, y)
       IN  byNS[ns] \o AppendByNamespace(byNS, S \ {ns})

\* eg.Wait(), then the tables of the namespaces of each GroupKind are
\* appended in the order of the namespaces
MergeTables ==
  /\ tablePc = "run"
  /\ \A g \in DOMAIN tableRoutine : tableRoutine[g] = "done"
  /\ tablePc' = "returned"
  /\ tableByGK' =
       IF tableEg # "nil"
       THEN [err |-> tableEg, tables |-> EmptyMap]
       ELSE [err |-> "nil",
             tables |-> [gk \in DOMAIN tableByGKAndNS |->
                           AppendByNamespace(tableByGKAndNS[gk],
                                             DOMAIN tableByGKAndNS[gk])]]
  /\ UNCHANGED <<nodesByGKAndNS, tableRoutine, tableOk, tableByGKAndNS, tableEg,
                 tableFetched>>
  /\ UNCHANGED otherVars

TableNext ==
  \/ \E g \in TableGroups, outcome \in GetTableOutcomes : GetTable(g, outcome)
  \/ \E g \in TableGroups : OuterCheck(g)
  \/ \E g \in TableGroups : OuterWrite(g)
  \/ \E g \in TableGroups : InnerCheck(g)
  \/ \E g \in TableGroups : InnerStore(g)
  \/ \E g, h \in TableGroups : ConcurrentMapAccess(g, h)
  \/ MergeTables

TableSpec == TableInit /\ [][TableNext]_vars

\* how often the rows of the table fetched for g are in the final table
RowsInFinalTable(g) ==
  IF g[1] \in DOMAIN tableByGK.tables
  THEN Cardinality({ i \in DOMAIN tableByGK.tables[g[1]] :
                       tableByGK.tables[g[1]][i] = g })
  ELSE 0

\* every table that was fetched is in the final table of its GroupKind once
NoLostTable ==
  tablePc = "returned" /\ tableByGK.err = "nil" =>
    \A g \in tableFetched : RowsInFinalTable(g) = 1

\* C27: in split output the tables fetched concurrently are merged without
\* loss: under every interleaving of the goroutines the final table of each
\* GroupKind holds the rows of every table fetched for it exactly once, and
\* no goroutine's access of the map runs into another's write.
C27_TablesMergedWithoutLoss ==
  /\ tablePc # "fatal"
  /\ NoLostTable

(***************************************************************************)
(* The nodes the column helpers count and the nodes the tree shows.        *)
(***************************************************************************)
\* the ConfigMaps t-root, t-a, t-n, t-x, t-y
Shortcut == { p \in Ptrs : Catalogue[p].uid \in {"t0", "t1", "t2", "t3", "t4"} }

ShortcutUniverses == { S \in SUBSET Shortcut : Cardinality(S) >= Cardinality(Shortcut) - 1 }

ShortcutInit ==
  /\ ListIdle
  /\ TableIdle
  /\ objects \in ShortcutUniverses
  /\ pending = objects
  /\ globalMapByUID = EmptyMap
  /\ globalMapByKey = EmptyMap
  /\ nodes = EmptyMap
  /\ pc = "build"
  /\ todo = {}
  /\ uids = <<>>
  /\ depsIsDependencies = FALSE
  /\ depth = 0
  /\ nodeMap = EmptyMap
  /\ uidQueue = <<>>
  /\ uidSet = {}
  /\ bfsExpanded = EmptyMap
  /\ maxDepth = 0
  /\ stack = <<>>
  /\ printSet = {}
  /\ rows = <<>>
  /\ treeExpanded = EmptyMap

ShortcutSpec == ShortcutInit /\ [][Next]_vars

\* createShowGroupFn and shouldShowNamespace skip a node when
\* maxDepth != 0 && node.Depth > maxDepth
CountedNodes ==
  { UID(nodeMap[k]) : k \in { x \in DOMAIN nodeMap :
                                /\ nodeMap[x] # NilNode
                                /\ maxDepth = 0 \/ nodes[nodeMap[x]].Depth <= maxDepth } }

\* the nodes that have a row
EmittedNodes == { rows[i].uid : i \in DOMAIN rows }

\* C28: the nodes the column helpers count are the nodes the tree shows: for
\* a NodeMap resolved from one root and a max-depth k > 0, every node with
\* Depth <= k has a row and every node with a row has Depth <= k.
C28_CountedAreEmitted ==
  pc = "done" /\ Len(uids) = 1 /\ maxDepth > 0 => CountedNodes = EmittedNodes

(***************************************************************************)
(* Rows of one node.                                                       *)
(***************************************************************************)
\* C29 as stated: every node has at most one row.
C29_AtMostOneRow ==
  pc = "done" =>
    \A i, j \in DOMAIN rows : rows[i].uid = rows[j].uid => i = j

\* C29: the projection has one row for every pair of an expanded node and
\* one of its neighbours: a node has at most one row under each parent (and
\* so one row per expanded node that lists it), and the neighbours of a node
\* are listed under a single one of its rows, all at one depth.
C29_OneRowPerParent ==
  pc = "done" =>
    \A i, j \in DOMAIN rows :
      /\ rows[i].uid = rows[j].uid /\ rows[i].parent = rows[j].parent => i = j
      /\ rows[i].parent = rows[j].parent => rows[i].depth = rows[j].depth

\* a finished projection in which a node has rows under two different
\* parents and was expanded once
C29_Witness ==
  /\ pc = "done"
  /\ \E i, j \in DOMAIN rows :
       /\ i # j
       /\ rows[i].uid = rows[j].uid
       /\ rows[i].parent # rows[j].parent
       /\ rows[i].parent # Sentinel
       /\ rows[j].parent # Sentinel
       /\ Count(treeExpanded, rows[i].uid) = 1

(***************************************************************************)
(* A Service without selector.                                             *)
(***************************************************************************)
NoSelector(s) == IsService(s) /\ Catalogue[s].selector = {} /\ ~Catalogue[s].undecodable

\* C30: a Service whose spec.selector is empty or absent yields a label
\* selector that matches every Pod: the resolver links the Service with
\* relationship Service to all Pods of its namespace in the universe (each
\* is a dependency of the Service), and to no Pod of another namespace.
C30_EmptySelectorMatchesAll ==
  Returned =>
    \A s, p \in objects :
      NoSelector(s) /\ IsPod(p) =>
        IF Catalogue[p].namespace = Catalogue[s].namespace
        THEN Depends(s, p, RelationshipService)
        ELSE Unrelated(s, p, RelationshipService)

\* resolved from the Service without selector towards its dependencies: two
\* Pods of its namespace with different labels and a Pod of another namespace
C30_Witness ==
  /\ RootedAt("nosel", TRUE)
  /\ objects = {3, 4, 6, 44}
  /\ {"pod", UID(4)} \subseteq DOMAIN nodeMap
  /\ UID(6) \notin DOMAIN nodeMap
  /\ Catalogue[3].labels # Catalogue[4].labels
  /\ Catalogue[6].namespace # Catalogue[44].namespace

====
